---- MODULE Spec2Model ----
(***************************************************************************)
(* A model of the decorator utilities of python_mastery.decorators:        *)
(*   cache(ttl, maxsize)            src/python_mastery/decorators/cache.py  *)
(*   retry(max_attempts, delay, exceptions, backoff)         .../retry.py  *)
(*   rate_limit(calls, period)                          .../rate_limit.py  *)
(* Each wrapper is a state machine of its closure variables, its lock and  *)
(* the position of every caller inside the wrapper.  time.time() is the    *)
(* variable now, advanced by Tick.  Variables whose names start with h_    *)
(* are history variables: they record what happened and are read by no     *)
(* action of the program.                                                  *)
(***************************************************************************)
EXTENDS Integers, Sequences, FiniteSets, TLC

VARIABLES
    now,            \* time.time(), in whole ticks
    \* ---- cache ----
    ttl,            \* cache(ttl=...)
    maxsize,        \* cache(maxsize=...), None when unlimited
    c_active,       \* the callers that use the cached callable in this run
    c_forms,        \* the calls that the callers make in this run
    cache_store,    \* the OrderedDict, oldest first: <<[key, result, timestamp]>>
    c_lock,         \* threading.Lock of the cache: NoThread or its holder
    c_pc,           \* position of each caller inside wrapper
    c_cur,          \* locals of each caller's latest call
    call_count,     \* number of invocations of the cached target so far
    c_started,      \* number of wrapper calls started so far
    h_prev,         \* with a single caller: the call before the latest one
    h_usage,        \* keys in the store by time of last store or hit, oldest first
    h_evicted,      \* entries evicted by _store_result since the latest call began
    h_storer,       \* the caller whose _store_result ran last, NoThread if none
    \* ---- retry ----
    max_attempts,   \* retry(max_attempts=...)
    delay,          \* retry(delay=...)
    exceptions,     \* retry(exceptions=...): the kinds that are retried
    backoff,        \* retry(backoff=...)
    r_active,       \* the callers that use the retried callable in this run
    r_async,        \* the retried target is a coroutine function (line 63)
    r_plans,        \* what the target may do in the calls of this run
    r_pc,           \* position of each caller inside wrapper
    r_loc,          \* locals of each caller: attempts, current_delay, last_exception
    r_plan,         \* what the target does at its 1st, 2nd, ... invocation of this call
    r_out,          \* what the latest call of each caller returned or raised
    r_started,      \* number of wrapper calls started so far
    h_invoked,      \* invocations of the target by the latest call of each caller
    h_sleeps,       \* the waits of the latest call of each caller, in order
    \* ---- rate_limit ----
    calls,          \* rate_limit(calls=...)
    period,         \* rate_limit(period=...)
    call_times,     \* the list of timestamps of the admitted calls
    rl_active,      \* the callers that use the rate-limited callable
    rl_lock,        \* threading.Lock of the rate limiter: NoThread or its holder
    rl_pc,          \* position of each caller inside wrapper
    rl_cur,         \* current_time of each caller inside _check_rate_limit
    rl_out,         \* what the latest call of each caller returned or raised
    rl_started,     \* number of wrapper calls started so far
    rl_invoked,     \* number of invocations of the rate-limited target so far
    h_log,          \* every admission check so far, in order: time and verdict
    \* several wrapped callables (cache.py 42-58, rate_limit.py 46-61)
    k_cache,        \* per cached callable: the cells of its closure (lock, store)
    k_rate,         \* per rate-limited callable: the cells of its closure
    k_stores,       \* per cell: the OrderedDict it holds
    k_times,        \* per cell: the list of timestamps it holds
    k_calls,        \* number of calls made to these callables so far
    k_last,         \* the latest of these calls: callable, key, hit or admitted
    h_keys,         \* per cached callable: the arguments it has been called with
    h_misses,       \* per cached callable: the invocations of its target
    h_admits        \* per rate-limited callable: its admitted calls

cacheVars == <<ttl, maxsize, c_active, c_forms, cache_store, c_lock, c_pc, c_cur,
               call_count, c_started, h_prev, h_usage, h_evicted, h_storer>>

retryVars == <<max_attempts, delay, exceptions, backoff, r_active, r_async, r_plans, r_pc, r_loc,
               r_plan, r_out, r_started, h_invoked, h_sleeps>>

rateVars == <<calls, period, rl_active, call_times, rl_lock, rl_pc, rl_cur, rl_out, rl_started,
              rl_invoked, h_log>>

instVars == <<k_cache, k_rate, k_stores, k_times, k_calls, k_last, h_keys,
              h_misses, h_admits>>

vars == <<now, cacheVars, retryVars, rateVars, instVars>>

(***************************************************************************)
(* Bounds of the model.                                                    *)
(***************************************************************************)
MaxTime == 2
MaxCacheCalls == 4
MaxConcCalls == 2
MaxRetryAttempts == 3
MaxRetryCalls == 2
MaxRateCalls == 4
MaxInstanceCalls == 4

Threads == {1, 2}
NoThread == 0
None == -1

(***************************************************************************)
(* Python values that occur as arguments.  Every value is a record with    *)
(* the same fields, so that any two values can be compared.                *)
(***************************************************************************)
PyInt(n) == [tag |-> "int", v |-> n, s |-> "", items |-> <<>>]
PyStr(str) == [tag |-> "str", v |-> 0, s |-> str, items |-> <<>>]
PyTuple(xs) == [tag |-> "tuple", v |-> 0, s |-> "", items |-> xs]
PyList(xs) == [tag |-> "list", v |-> 0, s |-> "", items |-> xs]
\* a set is its elements in the order in which it is iterated
PySet(xs) == [tag |-> "set", v |-> 0, s |-> "", items |-> xs]
\* a dict is its items in insertion order, each item a (key, value) 2-tuple
PyDict(kvs) == [tag |-> "dict", v |-> 0, s |-> "", items |-> kvs]
Item(k, value) == PyTuple(<<k, value>>)

\* The order of str values used by sorted(): position in this alphabet.
NameOrder == <<"a", "b", "c", "x", "y">>
NameRank(s) == CHOOSE i \in 1..Len(NameOrder) : NameOrder[i] = s.s

\* sorted() on a sequence of (name, value) pairs with distinct names:
\* insertion sort by the first component.
RECURSIVE SortedPairs(_)
InsertPair(p, s) ==
    LET k == Cardinality({i \in 1..Len(s) : NameRank(s[i][1]) < NameRank(p[1])})
    IN  SubSeq(s, 1, k) \o <<p>> \o SubSeq(s, k + 1, Len(s))
SortedPairs(s) ==
    IF s = <<>> THEN <<>> ELSE InsertPair(s[1], SortedPairs(Tail(s)))

\* a sequence of pairs as a tuple of 2-tuples
TupleOfPairs(ps) == PyTuple([i \in 1..Len(ps) |-> PyTuple(<<ps[i][1], ps[i][2]>>)])

\* lines 60-66, _make_hashable: a dict becomes the tuple of its sorted
\* (key, hashable value) pairs, a list the tuple of its hashable elements in
\* the order of the list, any other value is returned unchanged.  (No set
\* occurs among the arguments of the modelled calls.)
RECURSIVE _make_hashable(_)
\* line 62: (k, _make_hashable(v)) for k, v in obj.items()
DictItems(obj) ==
    [i \in 1..Len(obj.items) |->
        <<obj.items[i].items[1], _make_hashable(obj.items[i].items[2])>>]
\* line 64: _make_hashable(item) for item in obj
ListItems(obj) == [i \in 1..Len(obj.items) |-> _make_hashable(obj.items[i])]
_make_hashable_unsorted(obj) ==
    IF obj.tag = "dict" THEN TupleOfPairs(DictItems(obj))
    ELSE IF obj.tag \in {"list", "set"} THEN PyTuple(ListItems(obj))
    ELSE obj
_make_hashable(obj) ==
    IF obj.tag = "dict" THEN TupleOfPairs(SortedPairs(DictItems(obj)))
    ELSE IF obj.tag \in {"list", "set"} THEN PyTuple(ListItems(obj))
    ELSE obj

\* line 70: tuple(_make_hashable(arg) for arg in args)
HashableArgs(args) == [i \in 1..Len(args) |-> _make_hashable(args[i])]
\* line 72: (k, _make_hashable(v)) for k, v in kwargs.items()
KwItems(kwargs) ==
    [i \in 1..Len(kwargs) |-> <<kwargs[i][1], _make_hashable(kwargs[i][2])>>]

\* _make_key(args, kwargs): (tuple of hashable args, tuple of sorted kwargs items)
_make_key_unsorted(args, kwargs) ==
    PyTuple(<<PyTuple(HashableArgs(args)), TupleOfPairs(KwItems(kwargs))>>)
_make_key(args, kwargs) ==
    PyTuple(<<PyTuple(HashableArgs(args)),
              TupleOfPairs(SortedPairs(KwItems(kwargs)))>>)

\* The calls the callers make: f(1), f(2), f(x=1, y=2), f(y=2, x=1).
Call(args, kwargs) == [args |-> args, kwargs |-> kwargs]
CallForms ==
    { Call(<<PyInt(1)>>, <<>>),
      Call(<<PyInt(2)>>, <<>>),
      Call(<<>>, << <<PyStr("x"), PyInt(1)>>, <<PyStr("y"), PyInt(2)>> >>),
      Call(<<>>, << <<PyStr("y"), PyInt(2)>>, <<PyStr("x"), PyInt(1)>> >>) }

\* The calls of tests/test_decorators.py 641-656 and of
\* examples/decorator_cache.py 73-77, and two calls with nested dicts.
Kw(name, value) == <<PyStr(name), value>>
DictAB == PyDict(<<Item(PyStr("a"), PyInt(1)), Item(PyStr("b"), PyInt(2))>>)
DictBA == PyDict(<<Item(PyStr("b"), PyInt(2)), Item(PyStr("a"), PyInt(1))>>)
ListXY == PyList(<<PyStr("x"), PyStr("y")>>)
ListYX == PyList(<<PyStr("y"), PyStr("x")>>)
\* multi_arg_function(1, 2, 3)
Positional123 == Call(<<PyInt(1), PyInt(2), PyInt(3)>>, <<>>)
\* multi_arg_function(a=1, b=2, c=3)
KeywordABC == Call(<<>>, <<Kw("a", PyInt(1)), Kw("b", PyInt(2)), Kw("c", PyInt(3))>>)
KeywordCBA == Call(<<>>, <<Kw("c", PyInt(3)), Kw("b", PyInt(2)), Kw("a", PyInt(1))>>)
\* normalize_and_join({"b": 2, "a": 1}, ["x", "y"])
PayloadTags == Call(<<DictBA, ListXY>>, <<>>)
\* normalize_and_join({"a": 1, "b": 2}, ["y", "x"])
PayloadTagsReordered == Call(<<DictAB, ListYX>>, <<>>)
\* normalize_and_join({"a": 1, "b": 2}, ["x", "y"])
PayloadReordered == Call(<<DictAB, ListXY>>, <<>>)
\* f({"x": {"a": 1, "b": 2}}, y=[{"b": 2, "a": 1}]) and the same call with
\* the inner dicts built in the other order
NestedAB == Call(<<PyDict(<<Item(PyStr("x"), DictAB)>>)>>,
                 <<Kw("y", PyList(<<DictBA>>))>>)
NestedBA == Call(<<PyDict(<<Item(PyStr("x"), DictBA)>>)>>,
                 <<Kw("y", PyList(<<DictAB>>))>>)
\* f((1, [2])): _make_hashable returns a tuple unchanged, list included
TupleWithList == Call(<<PyTuple(<<PyInt(1), PyList(<<PyInt(2)>>)>>)>>, <<>>)
KeyForms ==
    {Positional123, KeywordABC, KeywordCBA, PayloadTags, PayloadTagsReordered,
     PayloadReordered, NestedAB, NestedBA, TupleWithList}

\* hash(obj) succeeds: ints and strs are hashable, a tuple is when all its
\* items are, lists and dicts are not
RECURSIVE Hashable(_)
Hashable(obj) ==
    IF obj.tag \in {"int", "str"} THEN TRUE
    ELSE IF obj.tag = "tuple"
         THEN \A i \in 1..Len(obj.items) : Hashable(obj.items[i])
         ELSE FALSE
\* line 80: `key in cache_store` hashes the key; what an unhashable key raises
UnhashableKeyError == "TypeError"

(***************************************************************************)
(* OrderedDict operations on cache_store.                                  *)
(***************************************************************************)
Range(s) == {s[i] : i \in 1..Len(s)}
Keys(store) == {store[i].key : i \in 1..Len(store)}
IndexOf(store, key) == CHOOSE i \in 1..Len(store) : store[i].key = key
RemoveAt(s, i) == SubSeq(s, 1, i - 1) \o SubSeq(s, i + 1, Len(s))
Entry(key, result, timestamp) ==
    [key |-> key, result |-> result, timestamp |-> timestamp]

\* cache_store[key] = (result, timestamp): an existing key keeps its position
SetItem(store, key, result, timestamp) ==
    IF key \in Keys(store)
    THEN [store EXCEPT ![IndexOf(store, key)] = Entry(key, result, timestamp)]
    ELSE Append(store, Entry(key, result, timestamp))
\* cache_store.move_to_end(key)
move_to_end(store, key) ==
    LET i == IndexOf(store, key) IN Append(RemoveAt(store, i), store[i])
\* del cache_store[key]
DelItemSkipped(store, key) == store
DelItem(store, key) == RemoveAt(store, IndexOf(store, key))

(***************************************************************************)
(* _get_cached(key, current_time), with the lock held: the store after the *)
(* lookup, whether a live entry was found, and its result.                 *)
(***************************************************************************)
IsLive(entry, current_time) == current_time - entry.timestamp < ttl

\* line 85: the promotion of the entry that was hit
HitStoreNoMove(store, key) == store
HitStoreRefreshed(store, key) ==
    move_to_end(SetItem(store, key, store[IndexOf(store, key)].result, now), key)
HitStore(store, key) == move_to_end(store, key)

_get_cached_found(store, key, current_time) ==
    /\ key \in Keys(store)
    /\ IsLive(store[IndexOf(store, key)], current_time)
_get_cached_store(store, key, current_time) ==
    IF key \notin Keys(store) THEN store
    ELSE IF IsLive(store[IndexOf(store, key)], current_time)
         THEN HitStore(store, key)
         ELSE DelItem(store, key)

(***************************************************************************)
(* _store_result(key, result, current_time), with the lock held, in its    *)
(* two parts: the insertion (lines 97-98) and the eviction loop (101-103). *)
(***************************************************************************)
InsertResultKeepFirst(store, key, result, current_time) ==
    IF key \in Keys(store) THEN store
    ELSE Append(store, Entry(key, result, current_time))
InsertResult(store, key, result, current_time) ==
    move_to_end(SetItem(store, key, result, current_time), key)

EvictLoopOffByOne(store) ==
    IF maxsize # None /\ Len(store) > maxsize + 1 THEN Tail(store) ELSE store
EvictLoopPurging(store) ==
    LET live == SelectSeq(store, LAMBDA e : IsLive(e, now))
    IN  IF maxsize # None /\ Len(store) > maxsize
        THEN IF Len(live) > maxsize
             THEN SubSeq(live, Len(live) - maxsize + 1, Len(live))
             ELSE live
        ELSE store
RECURSIVE EvictLoop(_)
EvictLoop(store) ==
    IF maxsize # None /\ Len(store) > maxsize
    THEN EvictLoop(Tail(store))      \* popitem(last=False)
    ELSE store

\* the entries of store that are no longer in after
EvictedBy(store, after) == SelectSeq(store, LAMBDA e : e.key \notin Keys(after))

\* cache.py 139, 151 and rate_limit.py 105: the with block ends and the
\* lock that holder had is free again
ReleaseSkipped(holder) == holder
Release(holder) == NoThread

(***************************************************************************)
(* The cache wrapper (cache.py 133-154), one action per step of a caller.  *)
(***************************************************************************)
\* history: the keys of h_usage without key, then key as the latest used
Touch(usage, key) == Append(SelectSeq(usage, LAMBDA k : k # key), key)
Forget(usage, keys) == SelectSeq(usage, LAMBDA k : k \notin keys)

NoCall ==
    [form |-> Call(<<>>, <<>>), key |-> PyTuple(<<>>), current_time |-> 0,
     result |-> 0, invoked |-> FALSE, raised |-> 0, error |-> "",
     expired |-> FALSE, entry_ts |-> 0]

\* lines 54, 58: the closure of decorator(func) when it returns
FreshCache ==
    /\ cache_store = <<>>
    /\ c_lock = NoThread
    /\ c_pc = [t \in Threads |-> "idle"]
    /\ c_cur = [t \in Threads |-> NoCall]
    /\ call_count = 0
    /\ c_started = 0
    /\ h_prev = NoCall
    /\ h_usage = <<>>
    /\ h_evicted = <<>>
    /\ h_storer = NoThread

InitCache ==
    /\ ttl \in {1, 2}
    /\ maxsize \in {None, 1, 2}
    /\ c_active \in {{1}, Threads}
    /\ c_forms = CallForms
    /\ FreshCache

\* line 20: the cached callable with its default configuration, never called
IdleCache ==
    /\ ttl = 300
    /\ maxsize = None
    /\ c_active = {}
    /\ c_forms = CallForms
    /\ FreshCache

\* line 149: what the target may do
TargetBehaviours == {"return", "raise"}

\* line 149: no try statement encloses the call, so an exception of the
\* target skips lines 151-154 and the caller is back outside the wrapper
AfterRaiseStored == "store"
AfterRaise == "idle"

\* lines 136-137: key = _make_key(args, kwargs); current_time = time.time()
CacheBegin(t) ==
    /\ c_pc[t] = "idle"
    /\ \E form \in c_forms :
         c_cur' = [c_cur EXCEPT ![t] =
                     [NoCall EXCEPT !.form = form,
                                    !.key = _make_key(form.args, form.kwargs),
                                    !.current_time = now]]
    /\ c_pc' = [c_pc EXCEPT ![t] = "lookup"]
    /\ c_started' = c_started + 1
    /\ h_prev' = IF c_active = {t} THEN c_cur[t] ELSE h_prev
    /\ h_evicted' = <<>>
    /\ UNCHANGED <<retryVars, rateVars, instVars>>
    /\ UNCHANGED <<now, ttl, maxsize, c_active, c_forms, cache_store, c_lock, call_count,
                   h_usage, h_storer>>

\* a caller calls the cache wrapper
CacheEnter(t) ==
    /\ t \in c_active
    /\ c_started < (IF c_active = {t} THEN MaxCacheCalls ELSE MaxConcCalls)
    /\ CacheBegin(t)

\* line 149: the target of the single caller, while it runs, calls the
\* wrapper again (a recursive cached function); frame 2 is that inner call
CacheReenter ==
    /\ c_active = {1}
    /\ c_pc[1] = "call"
    /\ c_started < MaxConcCalls
    /\ CacheBegin(2)

\* lines 139-147: on a miss the with block ends, and the lock is released,
\* before line 149 calls the target
HeldDuringTarget(holder) == holder
ReleaseBeforeTarget(holder) == NoThread

\* lines 139-145: with lock: _get_cached; a hit returns, a miss goes on.
\* The block runs from the acquisition of the free lock to its release.
CacheLookup(t) ==
    /\ c_pc[t] = "lookup"
    /\ c_lock = NoThread
    /\ LET key == c_cur[t].key
           found == _get_cached_found(cache_store, key, c_cur[t].current_time)
       IN  IF ~Hashable(key)
           THEN \* line 80 raises inside the with block, which releases the lock
                /\ cache_store' = cache_store
                /\ c_cur' = [c_cur EXCEPT ![t].error = UnhashableKeyError]
                /\ c_pc' = [c_pc EXCEPT ![t] = "idle"]
                /\ h_usage' = h_usage
           ELSE
           /\ cache_store' = _get_cached_store(cache_store, key, c_cur[t].current_time)
           /\ IF found
              THEN LET e == cache_store[IndexOf(cache_store, key)]
                   IN  /\ c_cur' = [c_cur EXCEPT ![t].result = e.result,
                                                 ![t].entry_ts = e.timestamp]
                       /\ c_pc' = [c_pc EXCEPT ![t] = "idle"]
                       /\ h_usage' = Touch(h_usage, key)
              ELSE /\ c_cur' = [c_cur EXCEPT ![t].expired =
                                  key \in Keys(cache_store) \ Keys(cache_store')]
                   /\ c_pc' = [c_pc EXCEPT ![t] = "call"]
                   /\ h_usage' = Forget(h_usage, {key})
    /\ c_lock' = IF Hashable(c_cur[t].key)
                    /\ ~_get_cached_found(cache_store, c_cur[t].key, c_cur[t].current_time)
                 THEN ReleaseBeforeTarget(t)
                 ELSE Release(t)
    /\ UNCHANGED <<retryVars, rateVars, instVars>>
    /\ UNCHANGED <<now, ttl, maxsize, c_active, c_forms, call_count, c_started, h_prev,
                   h_evicted, h_storer>>

\* line 149: result = func(*args, **kwargs), outside the lock.  The target
\* returns the number of its invocation, so that two invocations differ, or
\* raises; the wrapper has no handler, so the exception (named by the number
\* of the invocation that raised it) leaves the wrapper at line 149.
CacheInvoke(t) ==
    /\ c_pc[t] = "call"
    /\ call_count' = call_count + 1
    /\ \E outcome \in TargetBehaviours :
         IF outcome = "return"
         THEN /\ c_cur' = [c_cur EXCEPT ![t].result = call_count + 1,
                                        ![t].invoked = TRUE]
              /\ c_pc' = [c_pc EXCEPT ![t] = "store"]
         ELSE /\ c_cur' = [c_cur EXCEPT ![t].raised = call_count + 1,
                                        ![t].invoked = TRUE]
              /\ c_pc' = [c_pc EXCEPT ![t] = AfterRaise]
    /\ UNCHANGED <<retryVars, rateVars, instVars>>
    /\ UNCHANGED <<now, ttl, maxsize, c_active, c_forms, cache_store, c_lock, c_started,
                   h_prev, h_usage, h_evicted, h_storer>>

\* line 152: the third argument of _store_result is a new reading of the
\* clock, time.time(), not the current_time that line 137 read
StoreTimeAtEntry(call) == call.current_time
StoreTime(call) == now

\* line 149 when the target calls the wrapper again: the target returns or
\* raises only after its inner call has ended
CacheInvokeOuter(t) ==
    /\ \A u \in Threads \ (c_active \cup {t}) : c_pc[u] = "idle"
    /\ CacheInvoke(t)

\* lines 151-152, 97-98: with lock: _store_result(key, result, time.time()),
\* the acquisition of the lock and the insertion
CacheStore(t) ==
    /\ c_pc[t] = "store"
    /\ c_lock = NoThread
    /\ c_lock' = t
    /\ cache_store' = InsertResult(cache_store, c_cur[t].key, c_cur[t].result,
                                   StoreTime(c_cur[t]))
    /\ c_cur' = [c_cur EXCEPT ![t].entry_ts = StoreTime(c_cur[t])]
    /\ c_pc' = [c_pc EXCEPT ![t] = "evict"]
    /\ h_usage' = Touch(h_usage, c_cur[t].key)
    /\ h_storer' = t
    /\ UNCHANGED <<retryVars, rateVars, instVars>>
    /\ UNCHANGED <<now, ttl, maxsize, c_active, c_forms, call_count, c_started, h_prev,
                   h_evicted>>

\* lines 101-103, 154: the eviction loop, the release of the lock, the return
CacheEvict(t) ==
    /\ c_pc[t] = "evict"
    /\ c_lock = t
    /\ cache_store' = EvictLoop(cache_store)
    /\ h_evicted' = EvictedBy(cache_store, cache_store')
    /\ h_usage' = Forget(h_usage, Keys(cache_store) \ Keys(cache_store'))
    /\ c_lock' = Release(t)
    /\ c_pc' = [c_pc EXCEPT ![t] = "idle"]
    /\ UNCHANGED <<retryVars, rateVars, instVars>>
    /\ UNCHANGED <<now, ttl, maxsize, c_active, c_forms, c_cur, call_count, c_started, h_prev,
                   h_storer>>

\* time passes
Tick ==
    /\ now < MaxTime
    /\ now' = now + 1
    /\ UNCHANGED <<cacheVars, retryVars, rateVars, instVars>>

(***************************************************************************)
(* The retry wrapper (retry.py 113-158).                                   *)
(***************************************************************************)
\* The exception classes that occur, each with its base classes (its MRO).
BasesAllExceptions(kind) == {kind, "Exception", "BaseException"}
Bases(kind) ==
    CASE kind = "ValueError" -> {"ValueError", "Exception", "BaseException"}
      [] kind = "TypeError" -> {"TypeError", "Exception", "BaseException"}
      [] kind = "RuntimeError" -> {"RuntimeError", "Exception", "BaseException"}
      [] kind = "CancelledError" -> {"CancelledError", "BaseException"}
      [] kind = "RateLimitExceeded" ->
            {"RateLimitExceeded", "PythonMasteryError", "Exception", "BaseException"}
      [] kind = "RetryExhausted" ->
            {"RetryExhausted", "RetryError", "PythonMasteryError", "Exception",
             "BaseException"}
      [] OTHER -> {kind}

\* an exception raised by the at-th invocation of the target
Exc(kind, at) == [kind |-> kind, at |-> at]
NoExc == Exc("", 0)
\* line 118: RuntimeError("No attempts made")
Placeholder == Exc("RuntimeError", 0)

\* what one invocation of the target does
TargetOutcomes == {"ok", "ValueError", "TypeError", "RuntimeError"}
PlanAt(plan, i) == plan[IF i <= Len(plan) THEN i ELSE Len(plan)]
Plans == [1..MaxRetryAttempts -> TargetOutcomes]
\* line 75: what awaiting a coroutine target may do: asyncio.CancelledError
\* is raised out of the await when the task is cancelled inside the target
AsyncTargetOutcomes == {"ok", "ValueError", "CancelledError"}
AsyncPlans == [1..MaxRetryAttempts -> AsyncTargetOutcomes]
\* line 105: asyncio.CancelledError raised out of `await asyncio.sleep`
Cancellation == Exc("CancelledError", 0)

FuncName == "func"

\* what a wrapper call returns or raises
NoOutcome ==
    [kind |-> "none", value |-> 0, exc |-> NoExc, func_name |-> "",
     max_attempts |-> 0, last_exception |-> NoExc, cause |-> NoExc]
Returned(value) == [NoOutcome EXCEPT !.kind = "return", !.value = value]
Raised(e) == [NoOutcome EXCEPT !.kind = "raise", !.exc = e]
\* exceptions.py 71-80, raised `from cause`
RetryExhaustedNoCause(func_name, n, last_exception, cause) ==
    [NoOutcome EXCEPT !.kind = "RetryExhausted", !.func_name = func_name,
                      !.max_attempts = n, !.last_exception = last_exception]
RetryExhausted(func_name, n, last_exception, cause) ==
    [NoOutcome EXCEPT !.kind = "RetryExhausted", !.func_name = func_name,
                      !.max_attempts = n, !.last_exception = last_exception,
                      !.cause = cause]

\* the class of the exception that the caller of the wrapper observes
ObservedClass(out) == IF out.kind = "raise" THEN out.exc.kind ELSE out.kind
\* str() of an exception of the target: the text that its at-th invocation
\* built, as in "Always fails (attempt 2)"
TargetMessage(e) ==
    [text |-> "target", func_name |-> "", max_attempts |-> 0, at |-> e.at]
\* exceptions.py 76-79: "Function '{func_name}' failed after {max_attempts}
\* attempts. Last error: {last_exception}"
ExhaustedMessage(out) ==
    [text |-> "Function failed after attempts. Last error:",
     func_name |-> out.func_name, max_attempts |-> out.max_attempts,
     at |-> out.last_exception.at]
\* str() of the exception that the caller of the wrapper observes
ObservedMessage(out) ==
    IF out.kind = "raise" THEN TargetMessage(out.exc) ELSE ExhaustedMessage(out)

\* line 133: except exceptions as e
CatchesAll(e) == TRUE
Catches(e) == Bases(e.kind) \cap exceptions # {}

\* line 120: while attempts < max_attempts
LoopContinuesShort(attempts) == attempts < max_attempts - 1
LoopContinues(attempts) == attempts < max_attempts

\* line 136: if attempts == max_attempts
IsLastAttemptEarly(attempts) == attempts >= max_attempts - 1
IsLastAttemptNever(attempts) == FALSE
IsLastAttempt(attempts) == attempts = max_attempts

\* line 155: current_delay *= backoff
NextDelayAdd(current_delay) == current_delay + backoff
NextDelay(current_delay) == current_delay * backoff

NoLocals == [attempts |-> 0, current_delay |-> 0, last_exception |-> NoExc]

\* lines 116-118: attempts, current_delay and last_exception are local
\* variables of wrapper: each call has its own
FrameShared(t) == 1
Frame(t) == t

FreshRetry ==
    /\ r_active = {1}
    /\ r_async = FALSE
    /\ r_plans = Plans
    /\ r_pc = [t \in Threads |-> "idle"]
    /\ r_loc = [t \in Threads |-> NoLocals]
    /\ r_plan = [t \in Threads |-> <<"ok">>]
    /\ r_out = [t \in Threads |-> NoOutcome]
    /\ r_started = 0
    /\ h_invoked = [t \in Threads |-> 0]
    /\ h_sleeps = [t \in Threads |-> <<>>]

InitRetry ==
    /\ max_attempts \in 0..MaxRetryAttempts
    /\ delay \in {1, 2}
    /\ exceptions \in {{"Exception"}, {"ValueError"}}
    /\ backoff \in {1, 2}
    /\ FreshRetry

\* lines 20-25: the retried callable with its default configuration, never called
IdleRetry ==
    /\ max_attempts = 3
    /\ delay = 1
    /\ exceptions = {"Exception"}
    /\ backoff = 1
    /\ FreshRetry

\* lines 116-118: attempts = 0; current_delay = delay; last_exception = ...
RetryBegin(t) ==
    /\ r_pc[t] = "idle"
    /\ r_started' = r_started + 1
    /\ \E plan \in r_plans : r_plan' = [r_plan EXCEPT ![t] = plan]
    /\ r_loc' = [r_loc EXCEPT ![Frame(t)] = [attempts |-> 0, current_delay |-> delay,
                                      last_exception |-> Placeholder]]
    /\ r_out' = [r_out EXCEPT ![t] = NoOutcome]
    /\ h_invoked' = [h_invoked EXCEPT ![t] = 0]
    /\ h_sleeps' = [h_sleeps EXCEPT ![t] = <<>>]
    /\ r_pc' = [r_pc EXCEPT ![t] = "loop"]
    /\ UNCHANGED <<max_attempts, delay, exceptions, backoff, r_active, r_async, r_plans>>

\* a caller calls the retry wrapper directly
RetryEnter(t) ==
    /\ t \in r_active
    /\ r_started < MaxRetryCalls
    /\ RetryBegin(t)
    /\ UNCHANGED <<now, cacheVars, rateVars, instVars>>

\* lines 120-144: one pass of the loop up to the return, the raise or the wait
RetryAttempt(t) ==
    /\ r_pc[t] = "loop"
    /\ LoopContinues(r_loc[Frame(t)].attempts)
    /\ LET attempts == r_loc[Frame(t)].attempts + 1
           invocation == h_invoked[t] + 1
           does == PlanAt(r_plan[t], invocation)
           e == Exc(does, invocation)
       IN  /\ h_invoked' = [h_invoked EXCEPT ![t] = invocation]
           /\ IF does = "ok"
              THEN /\ r_out' = [r_out EXCEPT ![t] = Returned(invocation)]
                   /\ r_loc' = [r_loc EXCEPT ![Frame(t)].attempts = attempts]
                   /\ r_pc' = [r_pc EXCEPT ![t] = "idle"]
              ELSE IF Catches(e)
              THEN /\ r_loc' = [r_loc EXCEPT ![Frame(t)].attempts = attempts,
                                             ![Frame(t)].last_exception = e]
                   /\ IF IsLastAttempt(attempts)
                      THEN /\ r_out' = [r_out EXCEPT ![t] =
                                          RetryExhausted(FuncName, max_attempts, e, e)]
                           /\ r_pc' = [r_pc EXCEPT ![t] = "idle"]
                      ELSE /\ r_out' = r_out
                           /\ r_pc' = [r_pc EXCEPT ![t] = "sleep"]
              ELSE /\ r_out' = [r_out EXCEPT ![t] = Raised(e)]
                   /\ r_loc' = [r_loc EXCEPT ![Frame(t)].attempts = attempts]
                   /\ r_pc' = [r_pc EXCEPT ![t] = "idle"]
    /\ UNCHANGED <<max_attempts, delay, exceptions, backoff, r_active, r_async, r_plans, r_plan,
                   r_started, h_sleeps>>
    /\ UNCHANGED <<now, cacheVars, rateVars, instVars>>

\* lines 154-155: time.sleep(current_delay); current_delay *= backoff
RetrySleep(t) ==
    /\ r_pc[t] = "sleep"
    /\ h_sleeps' = [h_sleeps EXCEPT ![t] = Append(@, r_loc[Frame(t)].current_delay)]
    /\ r_loc' = [r_loc EXCEPT ![Frame(t)].current_delay = NextDelay(@)]
    /\ r_pc' = [r_pc EXCEPT ![t] = "loop"]
    /\ UNCHANGED <<max_attempts, delay, exceptions, backoff, r_active, r_async, r_plans, r_plan,
                   r_out, r_started, h_invoked>>
    /\ UNCHANGED <<now, cacheVars, rateVars, instVars>>

\* line 105: the task is cancelled while the async wrapper is suspended in
\* `await asyncio.sleep(current_delay)`: CancelledError is raised there,
\* inside the handler of line 84, which no try statement encloses
RetryCancel(t) ==
    /\ r_async
    /\ r_pc[t] = "sleep"
    /\ r_out' = [r_out EXCEPT ![t] = Raised(Cancellation)]
    /\ r_pc' = [r_pc EXCEPT ![t] = "idle"]
    /\ UNCHANGED <<max_attempts, delay, exceptions, backoff, r_active, r_async, r_plans,
                   r_loc, r_plan, r_started, h_invoked, h_sleeps>>
    /\ UNCHANGED <<now, cacheVars, rateVars, instVars>>

\* lines 120, 158: the loop ends without a return or a raise
RetryFallThrough(t) ==
    /\ r_pc[t] = "loop"
    /\ ~LoopContinues(r_loc[Frame(t)].attempts)
    /\ r_out' = [r_out EXCEPT ![t] =
                   RetryExhausted(FuncName, max_attempts, r_loc[Frame(t)].last_exception, NoExc)]
    /\ r_pc' = [r_pc EXCEPT ![t] = "idle"]
    /\ UNCHANGED <<max_attempts, delay, exceptions, backoff, r_active, r_async, r_plans, r_loc,
                   r_plan, r_started, h_invoked, h_sleeps>>
    /\ UNCHANGED <<now, cacheVars, rateVars, instVars>>

(***************************************************************************)
(* The rate-limit wrapper (rate_limit.py 57-107).                          *)
(***************************************************************************)
\* exceptions.py 29-32
RateLimitExceeded(c, p, wait_time) ==
    [kind |-> "RateLimitExceeded", calls |-> c, period |-> p, wait_time |-> wait_time]
\* exceptions.py 33-36: "Rate limit exceeded. Maximum {calls} calls allowed
\* per {period} seconds. Please wait {wait_time:.1f} seconds before trying
\* again."
RateLimitMessage(e) ==
    [text |-> "Rate limit exceeded. Maximum calls allowed per seconds.",
     calls |-> e.calls, period |-> e.period, wait_time |-> e.wait_time]
NoRateOutcome == [kind |-> "none", calls |-> 0, period |-> 0, wait_time |-> 0]
RateReturned == [NoRateOutcome EXCEPT !.kind = "return"]
\* line 107: the exception of the target leaves the wrapper as it is
RateTargetRaised == [NoRateOutcome EXCEPT !.kind = "raise"]

\* line 70: time.time() returns a float, and lines 73 and 78 compute with
\* floats: every result is rounded to the nearest value that has
\* MantissaBits significant bits, a tie going to the even mantissa.  The
\* unit is the smallest step of the clock; a double has 53 such bits.
MantissaBits == 3
RECURSIVE Ulp(_)
Ulp(x) == IF x < 2 ^ MantissaBits THEN 1 ELSE 2 * Ulp(x \div 2)
FRoundMagnitude(x) ==
    LET q == Ulp(x)
        lower == (x \div q) * q
        rest == x - lower
    IN  IF 2 * rest < q THEN lower
        ELSE IF 2 * rest > q THEN lower + q
        ELSE IF (x \div q) % 2 = 0 THEN lower ELSE lower + q
FRound(x) == IF x < 0 THEN 0 - FRoundMagnitude(0 - x) ELSE FRoundMagnitude(x)
FSub(a, b) == FRound(a - b)
FAdd(a, b) == FRound(a + b)

\* line 73: the timestamps that stay: current_time - t < period
InWindowInclusive(t0, current_time) == FSub(current_time, t0) <= period
InWindow(t0, current_time) == FSub(current_time, t0) < period
Prune(times, current_time) == SelectSeq(times, LAMBDA t0 : InWindow(t0, current_time))

\* line 76: if len(call_times) >= calls
LimitReachedLate(times) == Len(times) > calls
LimitReached(times) == Len(times) >= calls

\* lines 77-78: oldest_call = min(call_times); wait_time = period - (now - oldest)
MinOf(times) == CHOOSE x \in Range(times) : \A y \in Range(times) : x <= y
WaitTimeSinceOldest(times, current_time) == FSub(current_time, MinOf(times))
WaitTime(times, current_time) == FSub(period, FSub(current_time, MinOf(times)))

\* lines 76-79: the limit is reached: the pruned list stays as line 73 left
\* it and RateLimitExceeded is raised
RaiseRateLimitRecorded(pruned, current_time) ==
    [call_times |-> Append(pruned, current_time),
     exc |-> RateLimitExceeded(calls, period, WaitTime(pruned, current_time))]
RaiseRateLimit(pruned, current_time) ==
    [call_times |-> pruned,
     exc |-> RateLimitExceeded(calls, period, WaitTime(pruned, current_time))]

\* line 82: call_times.append(current_time)
RecordCallTwice(times, current_time) == Append(Append(times, current_time), current_time)
RecordCall(times, current_time) == Append(times, current_time)

\* line 105: threading.Lock lets a caller in when no caller holds it
CanAcquireAlways(l) == TRUE
CanAcquire(l) == l = NoThread

\* lines 58, 61: the closure of decorator(func) when it returns
FreshRate ==
    /\ call_times = <<>>
    /\ rl_lock = NoThread
    /\ rl_pc = [t \in Threads |-> "idle"]
    /\ rl_cur = [t \in Threads |-> 0]
    /\ rl_out = [t \in Threads |-> NoRateOutcome]
    /\ rl_started = 0
    /\ rl_invoked = 0
    /\ h_log = <<>>

InitRate ==
    /\ calls \in {1, 2, 3}
    /\ period \in {1, 2}
    /\ rl_active = Threads
    /\ FreshRate

\* line 21: the rate-limited callable with its default configuration, never called
IdleRate ==
    /\ calls = 5
    /\ period = 60
    /\ rl_active = {}
    /\ FreshRate

\* line 103: the wrapper is called
RateBegin(t) ==
    /\ rl_pc[t] = "idle"
    /\ rl_started' = rl_started + 1
    /\ rl_out' = [rl_out EXCEPT ![t] = NoRateOutcome]
    /\ rl_pc' = [rl_pc EXCEPT ![t] = "lock"]
    /\ UNCHANGED <<calls, period, rl_active, call_times, rl_lock, rl_cur, rl_invoked, h_log>>
    /\ UNCHANGED <<now, cacheVars, retryVars, instVars>>

\* a caller calls the rate-limit wrapper
RateEnter(t) ==
    /\ t \in rl_active
    /\ rl_started < MaxRateCalls
    /\ RateBegin(t)

\* line 107: the target of the single caller, while it runs, calls the
\* wrapper again; frame 2 is that inner call
RateReenter ==
    /\ rl_active = {1}
    /\ rl_pc[1] = "call"
    /\ rl_started < MaxConcCalls
    /\ RateBegin(2)

\* line 105: with lock (acquire)
RateAcquire(t) ==
    /\ rl_pc[t] = "lock"
    /\ CanAcquire(rl_lock)
    /\ rl_lock' = t
    /\ rl_pc' = [rl_pc EXCEPT ![t] = "check"]
    /\ UNCHANGED <<calls, period, rl_active, call_times, rl_cur, rl_out, rl_started,
                   rl_invoked, h_log>>
    /\ UNCHANGED <<now, cacheVars, retryVars, instVars>>

\* lines 106, 70-79: _check_rate_limit() up to the verdict; a rejection leaves
\* the with block, which releases the lock, and skips line 107
RateCheck(t) ==
    /\ rl_pc[t] = "check"
    /\ LET current_time == now
           pruned == Prune(call_times, current_time)
       IN  IF LimitReached(pruned)
           THEN LET r == RaiseRateLimit(pruned, current_time)
                IN  /\ call_times' = r.call_times
                    /\ rl_out' = [rl_out EXCEPT ![t] = r.exc]
                    /\ rl_pc' = [rl_pc EXCEPT ![t] = "idle"]
                    /\ rl_lock' = Release(t)
                    /\ rl_cur' = rl_cur
                    /\ h_log' = Append(h_log, [time |-> current_time,
                                               admitted |-> FALSE, exc |-> r.exc])
           ELSE /\ call_times' = pruned
                /\ rl_out' = rl_out
                /\ rl_pc' = [rl_pc EXCEPT ![t] = "record"]
                /\ rl_lock' = rl_lock
                /\ rl_cur' = [rl_cur EXCEPT ![t] = current_time]
                /\ h_log' = h_log
    /\ UNCHANGED <<calls, period, rl_active, rl_started, rl_invoked>>
    /\ UNCHANGED <<now, cacheVars, retryVars, instVars>>

\* lines 82, 105: call_times.append(current_time) and the end of the with block
RateRecord(t) ==
    /\ rl_pc[t] = "record"
    /\ call_times' = RecordCall(call_times, rl_cur[t])
    /\ h_log' = Append(h_log, [time |-> rl_cur[t],
                               admitted |-> TRUE, exc |-> NoRateOutcome])
    /\ rl_lock' = Release(t)
    /\ rl_cur' = [rl_cur EXCEPT ![t] = 0]
    /\ rl_pc' = [rl_pc EXCEPT ![t] = "call"]
    /\ UNCHANGED <<calls, period, rl_active, rl_out, rl_started, rl_invoked>>
    /\ UNCHANGED <<now, cacheVars, retryVars, instVars>>

\* line 107: no try statement encloses the call of func, so nothing is done
\* to call_times when the target raises
SlotRefunded(times) == SubSeq(times, 1, Len(times) - 1)
AfterTargetRaised(times) == times

\* line 107: return func(*args, **kwargs); the target returns or raises
RateInvoke(t) ==
    /\ rl_pc[t] = "call"
    /\ rl_invoked' = rl_invoked + 1
    /\ \E outcome \in TargetBehaviours :
         IF outcome = "return"
         THEN /\ rl_out' = [rl_out EXCEPT ![t] = RateReturned]
              /\ call_times' = call_times
         ELSE /\ rl_out' = [rl_out EXCEPT ![t] = RateTargetRaised]
              /\ call_times' = AfterTargetRaised(call_times)
    /\ rl_pc' = [rl_pc EXCEPT ![t] = "idle"]
    /\ UNCHANGED <<calls, period, rl_active, rl_lock, rl_cur, rl_started, h_log>>
    /\ UNCHANGED <<now, cacheVars, retryVars, instVars>>

(***************************************************************************)
(* rate_limit applied outside retry on the same target                     *)
(* (examples/integration/async_web_scraper.py 46-57): the func of the      *)
(* rate-limit wrapper is the retry wrapper.                                *)
(***************************************************************************)
\* rate_limit.py 105-107: func is called after the with block has been left
CallsInnerBeforeCheck(pc) == pc \in {"call", "check"}
CallsInner(pc) == pc = "call"

\* rate_limit.py 107, retry.py 114-118: func(*args, **kwargs) enters the
\* retry wrapper
StackedCall(t) ==
    /\ CallsInner(rl_pc[t])
    /\ rl_pc' = [rl_pc EXCEPT ![t] = "inner"]
    /\ RetryBegin(t)
    /\ UNCHANGED <<calls, period, rl_active, call_times, rl_lock, rl_cur, rl_out,
                   rl_started, rl_invoked, h_log>>
    /\ UNCHANGED <<now, cacheVars, instVars>>

\* rate_limit.py 107: the retry wrapper has returned or raised, and the
\* rate-limit wrapper returns its result or lets its exception pass
StackedReturn(t) ==
    /\ rl_pc[t] = "inner"
    /\ r_pc[t] = "idle"
    /\ rl_out' = [rl_out EXCEPT ![t] = r_out[t]]
    /\ rl_pc' = [rl_pc EXCEPT ![t] = "idle"]
    /\ UNCHANGED <<calls, period, rl_active, call_times, rl_lock, rl_cur, rl_started,
                   rl_invoked, h_log>>
    /\ UNCHANGED <<now, cacheVars, retryVars, instVars>>

\* line 107 when the target calls the wrapper again: the target returns
\* only after its inner call has ended
RateInvokeOuter(t) ==
    /\ \A u \in Threads \ (rl_active \cup {t}) : rl_pc[u] = "idle"
    /\ RateInvoke(t)

(***************************************************************************)
(* Several wrapped callables.  Each application decorator(func) runs       *)
(* cache.py 54-58 or rate_limit.py 58-61 once and creates a lock and a     *)
(* store or a list, which the wrapper it returns keeps in its closure.     *)
(* Objects are cells; the calls are made one after the other by a single   *)
(* caller, each as one step.                                               *)
(***************************************************************************)
Instances == {1, 2}
Cells == {1, 2}
InstanceArgs == {1, 2}

\* cache.py 54, 58 and rate_limit.py 58, 61: the objects that the i-th
\* application of decorator creates are new ones
NewCellShared(i) == 1
NewCell(i) == i

\* the targets of the test: function_one returns x * 2, function_two x * 3
TargetResult(i, x) == x * (i + 1)

NoInstanceCall == [wrapper |-> "none", instance |-> 0, x |-> 0, served |-> FALSE]

\* no callable wrapped more than once, none called
NoInstances ==
    /\ k_cache = [i \in Instances |-> [lock |-> 0, store |-> 0]]
    /\ k_rate = [i \in Instances |-> [lock |-> 0, times |-> 0]]
    /\ k_stores = [c \in Cells |-> <<>>]
    /\ k_times = [c \in Cells |-> <<>>]
    /\ k_calls = 0
    /\ k_last = NoInstanceCall
    /\ h_keys = [i \in Instances |-> {}]
    /\ h_misses = [i \in Instances |-> 0]
    /\ h_admits = [i \in Instances |-> 0]

\* cache(...) and rate_limit(...) have each been applied to two functions
TwoInstances ==
    /\ k_cache = [i \in Instances |-> [lock |-> NewCell(i), store |-> NewCell(i)]]
    /\ k_rate = [i \in Instances |-> [lock |-> NewCell(i), times |-> NewCell(i)]]
    /\ k_stores = [c \in Cells |-> <<>>]
    /\ k_times = [c \in Cells |-> <<>>]
    /\ k_calls = 0
    /\ k_last = NoInstanceCall
    /\ h_keys = [i \in Instances |-> {}]
    /\ h_misses = [i \in Instances |-> 0]
    /\ h_admits = [i \in Instances |-> 0]

StoreOf(i) == k_stores[k_cache[i].store]
WindowOf(i) == k_times[k_rate[i].times]

\* cache.py 134-154, a whole call wrapper(x) of the i-th cached callable
InstanceCacheCall(i) ==
    /\ k_calls < MaxInstanceCalls
    /\ \E x \in InstanceArgs :
         LET key == _make_key(<<PyInt(x)>>, <<>>)
             found == _get_cached_found(StoreOf(i), key, now)
             looked == _get_cached_store(StoreOf(i), key, now)
             final == IF found THEN looked
                      ELSE EvictLoop(InsertResult(looked, key, TargetResult(i, x), now))
         IN  /\ k_stores' = [k_stores EXCEPT ![k_cache[i].store] = final]
             /\ k_last' = [wrapper |-> "cache", instance |-> i, x |-> x,
                           served |-> found]
             /\ h_keys' = [h_keys EXCEPT ![i] = @ \cup {x}]
             /\ h_misses' = [h_misses EXCEPT ![i] = IF found THEN @ ELSE @ + 1]
    /\ k_calls' = k_calls + 1
    /\ UNCHANGED <<k_cache, k_rate, k_times, h_admits>>
    /\ UNCHANGED <<now, cacheVars, retryVars, rateVars>>

\* rate_limit.py 102-107, a whole call wrapper() of the i-th limited callable
InstanceRateCall(i) ==
    /\ k_calls < MaxInstanceCalls
    /\ LET pruned == Prune(WindowOf(i), now)
           admitted == ~LimitReached(pruned)
           final == IF admitted THEN RecordCall(pruned, now)
                    ELSE RaiseRateLimit(pruned, now).call_times
       IN  /\ k_times' = [k_times EXCEPT ![k_rate[i].times] = final]
           /\ k_last' = [wrapper |-> "rate_limit", instance |-> i, x |-> 0,
                         served |-> admitted]
           /\ h_admits' = [h_admits EXCEPT ![i] = IF admitted THEN @ + 1 ELSE @]
    /\ k_calls' = k_calls + 1
    /\ UNCHANGED <<k_cache, k_rate, k_stores, h_keys, h_misses>>
    /\ UNCHANGED <<now, cacheVars, retryVars, rateVars>>

(***************************************************************************)
(* The wrappers for a coroutine function.  decorator(func) returns         *)
(* async_wrapper when asyncio.iscoroutinefunction(func) and wrapper        *)
(* otherwise (cache.py 105, retry.py 63, rate_limit.py 90).  Each wrapper  *)
(* is taken here as a whole call: a function of the state of its closure,  *)
(* of the clock readings and of what the target does.                      *)
(***************************************************************************)
CallResult(store, kind, result) == [store |-> store, kind |-> kind, result |-> result]

\* cache.py 134-154: wrapper; current_time is the reading of line 137 and
\* store_time the reading of line 152
CacheWrapper(store, x, current_time, store_time, does) ==
    LET key == _make_key(<<PyInt(x)>>, <<>>)
        found == _get_cached_found(store, key, current_time)
        looked == _get_cached_store(store, key, current_time)
        result == TargetResult(1, x)
    IN  IF found
        THEN CallResult(looked, "hit", looked[Len(looked)].result)
        ELSE IF does = "raise"
        THEN CallResult(looked, "raise", 0)
        ELSE CallResult(EvictLoop(InsertResult(looked, key, result, store_time)),
                        "miss", result)

\* cache.py 108-128: async_wrapper; line 111 reads current_time and line 126
\* reads the clock again after `await func(*args, **kwargs)`
CacheAsyncWrapperOneReading(store, x, current_time, store_time, does) ==
    LET key == _make_key(<<PyInt(x)>>, <<>>)
        found == _get_cached_found(store, key, current_time)
        looked == _get_cached_store(store, key, current_time)
        result == TargetResult(1, x)
    IN  IF found
        THEN CallResult(looked, "hit", looked[Len(looked)].result)
        ELSE IF does = "raise"
        THEN CallResult(looked, "raise", 0)
        ELSE CallResult(EvictLoop(InsertResult(looked, key, result, current_time)),
                        "miss", result)
CacheAsyncWrapper(store, x, current_time, store_time, does) ==
    LET key == _make_key(<<PyInt(x)>>, <<>>)
        found == _get_cached_found(store, key, current_time)
        looked == _get_cached_store(store, key, current_time)
        result == TargetResult(1, x)
    IN  IF found
        THEN CallResult(looked, "hit", looked[Len(looked)].result)
        ELSE IF does = "raise"
        THEN CallResult(looked, "raise", 0)
        ELSE CallResult(EvictLoop(InsertResult(looked, key, result, store_time)),
                        "miss", result)

RunLocals(attempts, current_delay, last_exception, sleeps) ==
    [attempts |-> attempts, current_delay |-> current_delay,
     last_exception |-> last_exception, sleeps |-> sleeps]
RunResult(out, loc) == [out |-> out, attempts |-> loc.attempts, sleeps |-> loc.sleeps]

\* retry.py 120-158: the loop of wrapper, with time.sleep
RECURSIVE RetryWrapperLoop(_, _)
RetryWrapperLoop(plan, loc) ==
    IF ~(loc.attempts < max_attempts)
    THEN RunResult(RetryExhausted(FuncName, max_attempts, loc.last_exception, NoExc), loc)
    ELSE LET attempts == loc.attempts + 1
             does == PlanAt(plan, attempts)
             e == Exc(does, attempts)
             at == [loc EXCEPT !.attempts = attempts]
         IN  IF does = "ok" THEN RunResult(Returned(attempts), at)
             ELSE IF ~Catches(e) THEN RunResult(Raised(e), at)
             ELSE IF IsLastAttempt(attempts)
             THEN RunResult(RetryExhausted(FuncName, max_attempts, e, e), at)
             ELSE RetryWrapperLoop(plan,
                      RunLocals(attempts, NextDelay(loc.current_delay), e,
                                Append(loc.sleeps, loc.current_delay)))
\* retry.py 114-118
RetryWrapper(plan) == RetryWrapperLoop(plan, RunLocals(0, delay, Placeholder, <<>>))

\* retry.py 71-109: the loop of async_wrapper, with `await asyncio.sleep`
RECURSIVE RetryAsyncWrapperLoop(_, _)
RetryAsyncWrapperLoop(plan, loc) ==
    IF ~(loc.attempts < max_attempts)
    THEN RunResult(RetryExhausted(FuncName, max_attempts, loc.last_exception, NoExc), loc)
    ELSE LET attempts == loc.attempts + 1
             does == PlanAt(plan, attempts)
             e == Exc(does, attempts)
             at == [loc EXCEPT !.attempts = attempts]
         IN  IF does = "ok" THEN RunResult(Returned(attempts), at)
             ELSE IF ~Catches(e) THEN RunResult(Raised(e), at)
             ELSE IF IsLastAttempt(attempts)
             THEN RunResult(RetryExhausted(FuncName, max_attempts, e, e), at)
             ELSE RetryAsyncWrapperLoop(plan,
                      RunLocals(attempts, NextDelay(loc.current_delay), e,
                                Append(loc.sleeps, loc.current_delay)))
\* retry.py 65-69
RetryAsyncWrapper(plan) ==
    RetryAsyncWrapperLoop(plan, RunLocals(0, delay, Placeholder, <<>>))

\* rate_limit.py 102-107: wrapper
RateWrapper(times, current_time) ==
    LET pruned == Prune(times, current_time)
    IN  IF LimitReached(pruned)
        THEN [call_times |-> RaiseRateLimit(pruned, current_time).call_times,
              out |-> RaiseRateLimit(pruned, current_time).exc]
        ELSE [call_times |-> RecordCall(pruned, current_time), out |-> RateReturned]
\* rate_limit.py 93-98: async_wrapper
RateAsyncWrapper(times, current_time) ==
    LET pruned == Prune(times, current_time)
    IN  IF LimitReached(pruned)
        THEN [call_times |-> RaiseRateLimit(pruned, current_time).call_times,
              out |-> RaiseRateLimit(pruned, current_time).exc]
        ELSE [call_times |-> RecordCall(pruned, current_time), out |-> RateReturned]

\* no call made yet to the pair of wrappers
NoPairCall == [wrapper |-> "none", sync |-> 0, async |-> 0]
PairPlans == [1..2 -> AsyncTargetOutcomes]

\* callable 1 wraps a function and callable 2 a coroutine function with the
\* same body; both are called with the same argument, the target does the
\* same in both and the clock gives both the same readings
PairCacheCall ==
    /\ k_calls < MaxInstanceCalls
    /\ \E x \in InstanceArgs, does \in TargetBehaviours, store_time \in now..MaxTime :
         LET s == CacheWrapper(StoreOf(1), x, now, store_time, does)
             a == CacheAsyncWrapper(StoreOf(2), x, now, store_time, does)
         IN  /\ k_stores' = [k_stores EXCEPT ![k_cache[1].store] = s.store,
                                             ![k_cache[2].store] = a.store]
             /\ k_last' = [wrapper |-> "cache",
                           sync |-> [kind |-> s.kind, result |-> s.result],
                           async |-> [kind |-> a.kind, result |-> a.result]]
             /\ now' = IF s.kind = "hit" THEN now ELSE store_time
    /\ k_calls' = k_calls + 1
    /\ UNCHANGED <<k_cache, k_rate, k_times, h_keys, h_misses, h_admits>>
    /\ UNCHANGED <<cacheVars, retryVars, rateVars>>

PairRetryCall ==
    /\ k_calls < MaxInstanceCalls
    /\ \E plan \in PairPlans :
         k_last' = [wrapper |-> "retry", sync |-> RetryWrapper(plan),
                    async |-> RetryAsyncWrapper(plan)]
    /\ k_calls' = k_calls + 1
    /\ UNCHANGED <<k_cache, k_rate, k_stores, k_times, h_keys, h_misses, h_admits>>
    /\ UNCHANGED <<now, cacheVars, retryVars, rateVars>>

PairRateCall ==
    /\ k_calls < MaxInstanceCalls
    /\ LET s == RateWrapper(WindowOf(1), now)
           a == RateAsyncWrapper(WindowOf(2), now)
       IN  /\ k_times' = [k_times EXCEPT ![k_rate[1].times] = s.call_times,
                                         ![k_rate[2].times] = a.call_times]
           /\ k_last' = [wrapper |-> "rate_limit", sync |-> s.out, async |-> a.out]
    /\ k_calls' = k_calls + 1
    /\ UNCHANGED <<k_cache, k_rate, k_stores, h_keys, h_misses, h_admits>>
    /\ UNCHANGED <<now, cacheVars, retryVars, rateVars>>

Init ==
    /\ now = 0
    /\ InitCache
    /\ IdleRetry
    /\ IdleRate
    /\ NoInstances

NextCache ==
    \/ Tick
    \/ \E t \in Threads : CacheEnter(t)
    \/ \E t \in Threads : CacheLookup(t)
    \/ \E t \in Threads : CacheInvoke(t)
    \/ \E t \in Threads : CacheStore(t)
    \/ \E t \in Threads : CacheEvict(t)

\* the cached callable used by one caller, and by two concurrent callers
InitCacheSeq == Init /\ c_active = {1}
InitCacheConc == Init /\ c_active = Threads
SpecCacheSeq == InitCacheSeq /\ [][NextCache]_vars
SpecCacheConc == InitCacheConc /\ [][NextCache]_vars

\* the cached callable used by one caller that makes two of the calls of
\* KeyForms, in any order and any number of times
InitCacheKeys ==
    /\ now = 0
    /\ NoInstances
    /\ ttl = 2
    /\ maxsize = None
    /\ c_active = {1}
    /\ c_forms \in {S \in SUBSET KeyForms : Cardinality(S) = 2}
    /\ FreshCache
    /\ IdleRetry
    /\ IdleRate
SpecCacheKeys == InitCacheKeys /\ [][NextCache]_vars

\* calls with one argument: a list, a tuple and a set of the same elements,
\* a dict and the tuple of its items
ListOf12 == Call(<<PyList(<<PyInt(1), PyInt(2)>>)>>, <<>>)
TupleOf12 == Call(<<PyTuple(<<PyInt(1), PyInt(2)>>)>>, <<>>)
SetOf12 == Call(<<PySet(<<PyInt(1), PyInt(2)>>)>>, <<>>)
DictA1 == Call(<<PyDict(<<Item(PyStr("a"), PyInt(1))>>)>>, <<>>)
TupleOfItemsA1 == Call(<<PyTuple(<<Item(PyStr("a"), PyInt(1))>>)>>, <<>>)
TypeForms == {ListOf12, TupleOf12, SetOf12, DictA1, TupleOfItemsA1}
\* the cached callable used by one caller that makes two of these calls
InitCacheTypes ==
    /\ now = 0
    /\ NoInstances
    /\ ttl = 2
    /\ maxsize = None
    /\ c_active = {1}
    /\ c_forms \in {S \in SUBSET TypeForms : Cardinality(S) = 2}
    /\ FreshCache
    /\ IdleRetry
    /\ IdleRate
SpecCacheTypes == InitCacheTypes /\ [][NextCache]_vars

NextRetry ==
    \/ \E t \in Threads : RetryEnter(t)
    \/ \E t \in Threads : RetryAttempt(t)
    \/ \E t \in Threads : RetrySleep(t)
    \/ \E t \in Threads : RetryFallThrough(t)

InitRetryOnly ==
    /\ now = 0
    /\ NoInstances
    /\ IdleCache
    /\ InitRetry
    /\ IdleRate
SpecRetry == InitRetryOnly /\ [][NextRetry]_vars

\* every invocation of the target and every time.sleep returns, so a call
\* that can take a step of its loop takes it
RetryProgress ==
    \A t \in Threads :
        /\ WF_vars(RetryAttempt(t))
        /\ WF_vars(RetrySleep(t))
        /\ WF_vars(RetryFallThrough(t))
RetryLivePlans ==
    {<<"ok">>, <<"ValueError", "ok">>, <<"ValueError">>, <<"ValueError", "TypeError">>}
InitRetryLive ==
    /\ now = 0
    /\ NoInstances
    /\ IdleCache
    /\ IdleRate
    /\ max_attempts \in 0..MaxRetryAttempts
    /\ delay = 1
    /\ exceptions \in {{"Exception"}, {"ValueError"}}
    /\ backoff = 2
    /\ r_active = {1}
    /\ r_async = FALSE
    /\ r_plans = RetryLivePlans
    /\ r_pc = [t \in Threads |-> "idle"]
    /\ r_loc = [t \in Threads |-> NoLocals]
    /\ r_plan = [t \in Threads |-> <<"ok">>]
    /\ r_out = [t \in Threads |-> NoOutcome]
    /\ r_started = 0
    /\ h_invoked = [t \in Threads |-> 0]
    /\ h_sleeps = [t \in Threads |-> <<>>]
SpecRetryLive == InitRetryLive /\ [][NextRetry]_vars /\ RetryProgress

\* the retried callable called by two threads at once, or twice by one
RetryConcPlans == {<<"ok">>, <<"ValueError", "ok">>, <<"ValueError">>}
InitRetryConc ==
    /\ now = 0
    /\ NoInstances
    /\ IdleCache
    /\ IdleRate
    /\ max_attempts \in {0, 2, 3}
    /\ delay \in {1, 2}
    /\ exceptions = {"Exception"}
    /\ backoff = 2
    /\ r_active = Threads
    /\ r_async = FALSE
    /\ r_plans = RetryConcPlans
    /\ r_pc = [t \in Threads |-> "idle"]
    /\ r_loc = [t \in Threads |-> NoLocals]
    /\ r_plan = [t \in Threads |-> <<"ok">>]
    /\ r_out = [t \in Threads |-> NoOutcome]
    /\ r_started = 0
    /\ h_invoked = [t \in Threads |-> 0]
    /\ h_sleeps = [t \in Threads |-> <<>>]
SpecRetryConc == InitRetryConc /\ [][NextRetry]_vars

\* the retried coroutine function, awaited by one task that may be cancelled
NextRetryAsync ==
    \/ \E t \in Threads : RetryEnter(t)
    \/ \E t \in Threads : RetryAttempt(t)
    \/ \E t \in Threads : RetrySleep(t)
    \/ \E t \in Threads : RetryCancel(t)
    \/ \E t \in Threads : RetryFallThrough(t)
InitRetryAsync ==
    /\ now = 0
    /\ NoInstances
    /\ IdleCache
    /\ IdleRate
    /\ max_attempts \in 0..MaxRetryAttempts
    /\ delay \in {1, 2}
    /\ exceptions \in {{"Exception"}, {"ValueError"}}
    /\ backoff \in {1, 2}
    /\ r_active = {1}
    /\ r_async = TRUE
    /\ r_plans = AsyncPlans
    /\ r_pc = [t \in Threads |-> "idle"]
    /\ r_loc = [t \in Threads |-> NoLocals]
    /\ r_plan = [t \in Threads |-> <<"ok">>]
    /\ r_out = [t \in Threads |-> NoOutcome]
    /\ r_started = 0
    /\ h_invoked = [t \in Threads |-> 0]
    /\ h_sleeps = [t \in Threads |-> <<>>]
SpecRetryAsync == InitRetryAsync /\ [][NextRetryAsync]_vars

NextRate ==
    \/ Tick
    \/ \E t \in Threads : RateEnter(t)
    \/ \E t \in Threads : RateAcquire(t)
    \/ \E t \in Threads : RateCheck(t)
    \/ \E t \in Threads : RateRecord(t)
    \/ \E t \in Threads : RateInvoke(t)

InitRateOnly ==
    /\ now = 0
    /\ NoInstances
    /\ IdleCache
    /\ IdleRetry
    /\ InitRate
SpecRate == InitRateOnly /\ [][NextRate]_vars

\* One caller of a rate-limited callable whose clock readings are floats of
\* any magnitude up to MaxFloatTime.
MaxFloatTime == 16
FloatTimes == {x \in 0..MaxFloatTime : FRound(x) = x}
FloatPeriods == {1, 2, 3}

\* rate_limit.py 70: a later reading of time.time()
ClockAdvance ==
    /\ \E reading \in FloatTimes : reading > now /\ now' = reading
    /\ UNCHANGED <<cacheVars, retryVars, rateVars, instVars>>

\* exceptions.py 26, 35: the caller that was rejected waits e.wait_time
\* seconds and no longer: the clock then reads t + e.wait_time
WaitOut(t) ==
    /\ rl_pc[t] = "idle"
    /\ rl_out[t].kind = "RateLimitExceeded"
    /\ h_log # <<>>
    /\ ~h_log[Len(h_log)].admitted
    /\ h_log[Len(h_log)].time = now
    /\ now' = FAdd(now, rl_out[t].wait_time)
    /\ UNCHANGED <<cacheVars, retryVars, rateVars, instVars>>

NextRateFloat ==
    \/ ClockAdvance
    \/ \E t \in Threads : WaitOut(t)
    \/ \E t \in Threads : RateEnter(t)
    \/ \E t \in Threads : RateAcquire(t)
    \/ \E t \in Threads : RateCheck(t)
    \/ \E t \in Threads : RateRecord(t)
    \/ \E t \in Threads : RateInvoke(t)

InitRateFloat ==
    /\ now \in FloatTimes
    /\ NoInstances
    /\ IdleCache
    /\ IdleRetry
    /\ calls = 1
    /\ period \in FloatPeriods
    /\ rl_active = {1}
    /\ FreshRate
SpecRateFloat == InitRateFloat /\ [][NextRateFloat]_vars

\* two callers that share either a cached callable or a rate-limited one
NextLocks ==
    \/ Tick
    \/ \E t \in Threads : CacheEnter(t)
    \/ \E t \in Threads : CacheLookup(t)
    \/ \E t \in Threads : CacheInvoke(t)
    \/ \E t \in Threads : CacheStore(t)
    \/ \E t \in Threads : CacheEvict(t)
    \/ \E t \in Threads : RateEnter(t)
    \/ \E t \in Threads : RateAcquire(t)
    \/ \E t \in Threads : RateCheck(t)
    \/ \E t \in Threads : RateRecord(t)
    \/ \E t \in Threads : RateInvoke(t)
InitLocks == InitCacheConc \/ InitRateOnly
SpecLocks == InitLocks /\ [][NextLocks]_vars

\* a cached or a rate-limited callable, used by two threads or by one thread
\* whose target calls the wrapper again; the scheduler is fair: a step that
\* stays possible is taken, and a caller that finds the lock free again and
\* again acquires it; the clock stands still, as no path to the lock or
\* from it depends on it
CacheEnterFew(t) == c_started < MaxConcCalls /\ CacheEnter(t)
RateEnterFew(t) == rl_started < MaxConcCalls /\ RateEnter(t)
NextLockLive ==
    \/ \E t \in Threads : CacheEnterFew(t)
    \/ CacheReenter
    \/ \E t \in Threads : CacheLookup(t)
    \/ \E t \in Threads : CacheInvokeOuter(t)
    \/ \E t \in Threads : CacheStore(t)
    \/ \E t \in Threads : CacheEvict(t)
    \/ \E t \in Threads : RateEnterFew(t)
    \/ RateReenter
    \/ \E t \in Threads : RateAcquire(t)
    \/ \E t \in Threads : RateCheck(t)
    \/ \E t \in Threads : RateRecord(t)
    \/ \E t \in Threads : RateInvokeOuter(t)
LockLiveForms == {Call(<<PyInt(1)>>, <<>>), TupleWithList}
InitLockLiveCache ==
    /\ now = 0
    /\ NoInstances
    /\ ttl = 1
    /\ maxsize \in {None, 1}
    /\ c_active \in {{1}, Threads}
    /\ c_forms = LockLiveForms
    /\ FreshCache
    /\ IdleRetry
    /\ IdleRate
InitLockLiveRate ==
    /\ now = 0
    /\ NoInstances
    /\ IdleCache
    /\ IdleRetry
    /\ calls = 1
    /\ period = 2
    /\ rl_active \in {{1}, Threads}
    /\ FreshRate
InitLockLive == InitLockLiveCache \/ InitLockLiveRate
FairScheduling ==
    \A t \in Threads :
        /\ SF_vars(CacheLookup(t))
        /\ WF_vars(CacheInvokeOuter(t))
        /\ SF_vars(CacheStore(t))
        /\ WF_vars(CacheEvict(t))
        /\ SF_vars(RateAcquire(t))
        /\ WF_vars(RateCheck(t))
        /\ WF_vars(RateRecord(t))
        /\ WF_vars(RateInvokeOuter(t))
SpecLockLive == InitLockLive /\ [][NextLockLive]_vars /\ FairScheduling

\* fetch_sync: @rate_limit over @retry, called from two threads
NextStacked ==
    \/ Tick
    \/ \E t \in Threads : RateEnter(t)
    \/ \E t \in Threads : RateAcquire(t)
    \/ \E t \in Threads : RateCheck(t)
    \/ \E t \in Threads : RateRecord(t)
    \/ \E t \in Threads : StackedCall(t)
    \/ \E t \in Threads : RetryAttempt(t)
    \/ \E t \in Threads : RetrySleep(t)
    \/ \E t \in Threads : RetryFallThrough(t)
    \/ \E t \in Threads : StackedReturn(t)
InitStacked ==
    /\ now = 0
    /\ NoInstances
    /\ IdleCache
    /\ calls \in {1, 2}
    /\ period = 2
    /\ rl_active = Threads
    /\ FreshRate
    /\ max_attempts \in {0, 2}
    /\ delay = 1
    /\ exceptions = {"Exception"}
    /\ backoff = 2
    /\ r_active = {}
    /\ r_async = FALSE
    /\ r_plans = RetryConcPlans
    /\ r_pc = [t \in Threads |-> "idle"]
    /\ r_loc = [t \in Threads |-> NoLocals]
    /\ r_plan = [t \in Threads |-> <<"ok">>]
    /\ r_out = [t \in Threads |-> NoOutcome]
    /\ r_started = 0
    /\ h_invoked = [t \in Threads |-> 0]
    /\ h_sleeps = [t \in Threads |-> <<>>]
SpecStacked == InitStacked /\ [][NextStacked]_vars

\* each decorator applied to a function and to a coroutine function
NextPair ==
    \/ Tick
    \/ PairCacheCall
    \/ PairRetryCall
    \/ PairRateCall
InitPair ==
    /\ now = 0
    /\ ttl = 1
    /\ maxsize \in {None, 1}
    /\ c_active = {}
    /\ c_forms = CallForms
    /\ FreshCache
    /\ max_attempts \in {0, 3}
    /\ delay = 1
    /\ exceptions \in {{"Exception"}, {"ValueError"}}
    /\ backoff = 2
    /\ FreshRetry
    /\ calls = 1
    /\ period = 2
    /\ rl_active = {}
    /\ FreshRate
    /\ k_cache = [i \in Instances |-> [lock |-> NewCell(i), store |-> NewCell(i)]]
    /\ k_rate = [i \in Instances |-> [lock |-> NewCell(i), times |-> NewCell(i)]]
    /\ k_stores = [c \in Cells |-> <<>>]
    /\ k_times = [c \in Cells |-> <<>>]
    /\ k_calls = 0
    /\ k_last = NoPairCall
    /\ h_keys = [i \in Instances |-> {}]
    /\ h_misses = [i \in Instances |-> 0]
    /\ h_admits = [i \in Instances |-> 0]
SpecPair == InitPair /\ [][NextPair]_vars

\* two cached callables and two rate-limited callables, called in any order
NextInstances ==
    \/ Tick
    \/ \E i \in Instances : InstanceCacheCall(i)
    \/ \E i \in Instances : InstanceRateCall(i)
InitInstances ==
    /\ now = 0
    /\ ttl = 1
    /\ maxsize \in {None, 1}
    /\ c_active = {}
    /\ c_forms = CallForms
    /\ FreshCache
    /\ IdleRetry
    /\ calls \in {1, 2}
    /\ period = 2
    /\ rl_active = {}
    /\ FreshRate
    /\ TwoInstances
SpecInstances == InitInstances /\ [][NextInstances]_vars

(***************************************************************************)
(* Properties of the cache wrapper.                                        *)
(***************************************************************************)
\* two calls are logically identical: the same positional values in order
\* and the same keyword arguments, in any order
LogicallyIdentical(f, g) ==
    /\ f.args = g.args
    /\ Range(f.kwargs) = Range(g.kwargs)

\* a single caller has made two calls or more and the latest has returned:
\* c_cur[1] is the second of two consecutive calls and h_prev the first
TwoCallsDone ==
    /\ c_active = {1}
    /\ c_started >= 2
    /\ c_pc[1] = "idle"
    /\ LogicallyIdentical(h_prev.form, c_cur[1].form)
\* the first of the two calls returned, so that it left or found an entry
FirstReturned == h_prev.raised = 0 /\ h_prev.error = ""

C2_TtlExpiry ==
    (TwoCallsDone /\ FirstReturned /\ c_cur[1].current_time - h_prev.entry_ts > ttl)
        => /\ c_cur[1].invoked
           /\ c_cur[1].expired
           /\ c_cur[1].result # h_prev.result
           /\ call_count >= 2

C2_Witness ==
    /\ TwoCallsDone
    /\ FirstReturned
    /\ c_cur[1].raised = 0
    /\ c_cur[1].current_time - h_prev.entry_ts > ttl
    /\ h_prev.invoked
    /\ c_cur[1].invoked
    /\ call_count = 2

\* C3 (LRU size bound): with maxsize = N >= 1 and any number of callers,
\* whenever the lock is free the store holds at most N entries, and no
\* _store_result evicts more than one entry.
C3_LruSizeBound ==
    (maxsize # None /\ maxsize >= 1)
        => /\ (c_lock = NoThread => Len(cache_store) <= maxsize)
           /\ Len(h_evicted) <= 1

\* two overlapping calls with different keys: the caller that stored last
\* has evicted the entry that the other stored after this caller had begun
C3_Witness ==
    /\ c_active = Threads
    /\ maxsize # None
    /\ c_lock = NoThread
    /\ Len(h_evicted) = 1
    /\ Len(cache_store) = maxsize
    /\ \E t \in Threads :
         /\ c_pc[t] = "idle"
         /\ c_cur[t].invoked
         /\ c_cur[t].key \in Keys(cache_store)
         /\ h_evicted[1].timestamp > c_cur[t].current_time

\* C4 (LRU eviction order): with a single caller, every entry that a store
\* evicts is the one that has gone longest without being stored or hit
\* (the head of h_usage), and the store evicts exactly that entry.
C4_LruEvictionOrder ==
    [][\A t \in Threads :
          (c_pc[t] = "evict" /\ c_pc'[t] = "idle" /\ cache_store' # cache_store)
              => /\ Keys(cache_store) \ Keys(cache_store') = {Head(h_usage)}
                 /\ Len(cache_store') = Len(cache_store) - 1]_vars

\* maxsize = 2: A, B, hit A, C has evicted B, whose result is younger than A's
C4_Witness ==
    /\ c_active = {1}
    /\ maxsize = 2
    /\ Len(h_evicted) = 1
    /\ Len(cache_store) = 2
    /\ \E i \in 1..Len(cache_store) : cache_store[i].result < h_evicted[1].result

(***************************************************************************)
(* Properties of the retry wrapper.  A call is described by its plan: what *)
(* the target does at each invocation.                                     *)
(***************************************************************************)
\* the i-th invocation of the target raises a qualifying failure
FailsQualifying(plan, i) ==
    /\ PlanAt(plan, i) # "ok"
    /\ Bases(PlanAt(plan, i)) \cap exceptions # {}
\* the i-th invocation of the target raises a failure that does not qualify
FailsOther(plan, i) ==
    /\ PlanAt(plan, i) # "ok"
    /\ Bases(PlanAt(plan, i)) \cap exceptions = {}
\* the number of qualifying failures before the first other outcome
Leading(plan) ==
    Cardinality({j \in 1..Len(plan) : \A i \in 1..j : FailsQualifying(plan, i)})
RetryDone(t) == r_pc[t] = "idle" /\ r_out[t].kind # "none"
Min(a, b) == IF a <= b THEN a ELSE b
RECURSIVE Pow(_, _)
Pow(b, n) == IF n = 0 THEN 1 ELSE b * Pow(b, n - 1)
RECURSIVE SumSeq(_)
SumSeq(q) == IF q = <<>> THEN 0 ELSE Head(q) + SumSeq(Tail(q))

\* C5 (retry success after failure): when the target raises qualifying
\* failures at invocations 1..k-1 and returns at invocation k, 1 <= k <=
\* max_attempts, the wrapper returns the value of invocation k and the
\* target has been invoked exactly k times; for k = 1 there is no wait.
C5_RetrySuccessAfterFailure ==
    \A t \in Threads :
        LET k == Leading(r_plan[t]) + 1
        IN  (RetryDone(t) /\ k <= max_attempts /\ PlanAt(r_plan[t], k) = "ok")
                => /\ r_out[t] = Returned(k)
                   /\ h_invoked[t] = k
                   /\ (k = 1 => h_sleeps[t] = <<>>)

\* success at the last allowed attempt, after two failures
C5_Witness ==
    /\ RetryDone(1)
    /\ max_attempts = 3
    /\ Leading(r_plan[1]) = 2
    /\ r_out[1] = Returned(3)

C7_RetryNonQualifyingBypass ==
    \A t \in Threads :
        LET j == Leading(r_plan[t])
        IN  (r_out[t].kind # "none" /\ j < max_attempts /\ FailsOther(r_plan[t], j + 1))
                => /\ r_out[t] = Raised(Exc(PlanAt(r_plan[t], j + 1), j + 1))
                   /\ r_pc[t] = "idle"
                   /\ h_invoked[t] = j + 1
                   /\ Len(h_sleeps[t]) = j

\* a TypeError at the second attempt of retry(exceptions=(ValueError,))
C7_Witness ==
    /\ RetryDone(1)
    /\ exceptions = {"ValueError"}
    /\ r_out[1] = Raised(Exc("TypeError", 2))
    /\ h_invoked[1] = 2

\* C8 (retry backoff schedule): the i-th wait of a call lasts
\* delay * backoff^(i-1); a call that met j qualifying failures has, when it
\* ends, waited exactly min(j, max_attempts - 1) times, so that no wait
\* follows the final attempt.
C8_RetryBackoffSchedule ==
    \A t \in Threads :
        /\ \A i \in 1..Len(h_sleeps[t]) : h_sleeps[t][i] = delay * Pow(backoff, i - 1)
        /\ (RetryDone(t) /\ max_attempts >= 1)
              => Len(h_sleeps[t]) =
                    Min(Min(Leading(r_plan[t]), max_attempts), max_attempts - 1)

\* backoff = 2, success at attempt 3: the call has waited d + 2d
C8_Witness ==
    /\ RetryDone(1)
    /\ backoff = 2
    /\ r_out[1] = Returned(3)
    /\ Len(h_sleeps[1]) = 2
    /\ SumSeq(h_sleeps[1]) = 3 * delay

(***************************************************************************)
(* Properties of the rate-limit wrapper.  h_log[i] is the i-th admission   *)
(* check made on the callable since it was wrapped.                        *)
(***************************************************************************)
Admitted(log) == {i \in 1..Len(log) : log[i].admitted}
RateQuiet == \A t \in Threads : rl_pc[t] = "idle"

C10_RateLimitReset ==
    [][\A t \in Threads :
          /\ (/\ rl_pc[t] = "check"
              /\ rl_pc'[t] # "check"
              /\ Len(call_times) >= calls
              /\ now - MinOf(call_times) >= period)
                 => /\ rl_pc'[t] = "record"
                    /\ MinOf(call_times) \notin Range(call_times')
                    /\ rl_cur'[t] = now
          /\ (rl_pc[t] = "record" /\ rl_pc'[t] # "record")
                 => /\ rl_pc'[t] = "call"
                    /\ call_times' = Append(call_times, rl_cur[t])]_vars

\* calls = 1, period = 2: admitted at s, rejected in between, admitted at s + 2
C10_Witness ==
    /\ calls = 1
    /\ Len(h_log) >= 3
    /\ h_log[1].admitted
    /\ ~h_log[2].admitted
    /\ h_log[3].admitted
    /\ h_log[3].time - h_log[1].time = period

\* the admitted calls whose recorded timestamp lies in (T - period, T]
AdmittedInWindow(log, T) ==
    {i \in Admitted(log) : T - period < log[i].time /\ log[i].time <= T}
InCheck(t) == rl_pc[t] \in {"check", "record"}

\* C11 (sliding-window bound under concurrency): with two concurrent
\* callers, in every reachable state and for every time T, at most calls
\* admitted calls have their recorded timestamp in (T - period, T]; the
\* verdict and the recording of the timestamp are never interleaved with
\* another caller's, and the window never holds more than calls timestamps.
C11_SlidingWindowBound ==
    /\ \A T \in 0..MaxTime : Cardinality(AdmittedInWindow(h_log, T)) <= calls
    /\ \A t, u \in Threads : (t # u /\ InCheck(t)) => ~InCheck(u)
    /\ Len(call_times) <= calls

\* a caller holds the lock and is about to record into the last free slot
\* while the other caller, which has not been checked yet, waits for the lock
C11_Witness ==
    \E t, u \in Threads :
        /\ rl_pc[t] = "record"
        /\ rl_lock = t
        /\ rl_pc[u] = "lock"
        /\ Len(call_times) = calls - 1
        /\ Len(h_log) = calls - 1

\* C12 (rate-limit rejection has no effect): the step in which a call is
\* rejected raises RateLimitExceeded to the caller, which is back outside
\* the wrapper without having invoked the target, leaves call_times exactly
\* as it was, does not advance the clock and releases the lock.
C12_RejectionNoEffect ==
    [][\A t \in Threads :
          (rl_pc[t] = "check" /\ rl_pc'[t] = "idle")
              => /\ rl_out'[t].kind = "RateLimitExceeded"
                 /\ call_times' = call_times
                 /\ rl_invoked' = rl_invoked
                 /\ now' = now
                 /\ rl_lock' = NoThread]_vars

\* calls = 1: admitted at s, rejected twice at different times, and admitted
\* again at s + period: the rejections have not postponed the admission
C12_Witness ==
    /\ calls = 1
    /\ Len(h_log) = 4
    /\ h_log[1].admitted
    /\ ~h_log[2].admitted
    /\ ~h_log[3].admitted
    /\ h_log[2].time < h_log[3].time
    /\ h_log[4].admitted
    /\ h_log[4].time = h_log[1].time + period
    /\ rl_invoked = 2

\* the timestamps that the i-th check finds after pruning: those of the
\* calls admitted before it and younger than period when it reads the clock
LiveAt(log, i) ==
    {log[j].time : j \in {k \in Admitted(log) : k < i /\ log[i].time - log[k].time < period}}
SetMin(S) == CHOOSE x \in S : \A y \in S : x <= y

\* C13 (wait_time value): every RateLimitExceeded raised carries
\* wait_time = period - (now - oldest), oldest being the smallest timestamp
\* that remains after pruning, and 0 < wait_time <= period.
C13_WaitTimeValue ==
    \A i \in 1..Len(h_log) :
        ~h_log[i].admitted
            => /\ h_log[i].exc.kind = "RateLimitExceeded"
               /\ LiveAt(h_log, i) # {}
               /\ h_log[i].exc.wait_time =
                      period - (h_log[i].time - SetMin(LiveAt(h_log, i)))
               /\ 0 < h_log[i].exc.wait_time
               /\ h_log[i].exc.wait_time <= period

\* period = 2: a rejection at the instant of the oldest call (wait_time =
\* period) and one a second later (wait_time = 1), with two live timestamps
C13_Witness ==
    /\ period = 2
    /\ calls = 2
    /\ \E i, j \in 1..Len(h_log) :
         /\ ~h_log[i].admitted
         /\ ~h_log[j].admitted
         /\ h_log[i].exc.wait_time = 2
         /\ h_log[j].exc.wait_time = 1
    /\ \E t \in Threads : rl_out[t].kind = "RateLimitExceeded" /\ rl_out[t].wait_time = 1

(***************************************************************************)
(* Properties of the locks of the cache and rate-limit wrappers.           *)
(***************************************************************************)
\* C14 (lock discipline): in every reachable state no caller holds the
\* lock of the cache wrapper or of the rate-limit wrapper while it executes
\* the target; the cache lock is held only inside lookup and store/evict
\* and the rate-limit lock only inside the admission check, so that while a
\* caller executes the target the lock is free for the other caller's
\* lookup or admission check.
C14_LockDiscipline ==
    /\ \A t \in Threads : c_pc[t] \in {"call", "store"} => c_lock # t
    /\ \A t \in Threads : c_lock = t => c_pc[t] = "evict"
    /\ \A t \in Threads : rl_pc[t] = "call" => rl_lock # t
    /\ \A t \in Threads : rl_lock = t => InCheck(t)
    /\ \A t, u \in Threads :
         (c_pc[t] = "call" /\ c_pc[u] = "lookup") => c_lock = NoThread
    /\ \A t, u \in Threads :
         (rl_pc[t] = "call" /\ rl_pc[u] = "lock") => CanAcquire(rl_lock)

\* a caller is executing the rate-limited target and the other caller,
\* which came later, holds the lock for its own admission check
C14_Witness ==
    \E t, u \in Threads :
        /\ rl_pc[t] = "call"
        /\ rl_pc[u] = "check"
        /\ rl_lock = u
        /\ Len(h_log) >= 1

(***************************************************************************)
(* Properties of the cache wrapper under concurrency and failure.          *)
(***************************************************************************)
\* the entries of the store under key
EntriesFor(store, key) == {i \in 1..Len(store) : store[i].key = key}
\* caller t has missed and has not yet stored
MissedNotStored(t) == c_pc[t] \in {"call", "store"}
\* both callers have finished a call that invoked the target and returned,
\* with the same key
BothStoredSameKey ==
    /\ c_active = Threads
    /\ \A t \in Threads : c_pc[t] = "idle" /\ c_cur[t].invoked /\ c_cur[t].raised = 0
    /\ c_cur[1].key = c_cur[2].key

\* C15 (accepted duplicate-miss race): with two concurrent callers, a
\* lookup made before any call has stored, with the key of a call of the
\* other caller that has missed and not yet stored, is a miss too, so that
\* both invoke the target; and whenever both callers have finished calls
\* that invoked the target with the same key, the store holds exactly one
\* entry for the key, with the result and the timestamp written by the
\* caller that stored last.
C15_DuplicateMissRace ==
    [][/\ \A t, u \in Threads :
             (/\ t # u
              /\ h_storer = NoThread
              /\ MissedNotStored(t)
              /\ c_cur[u].key = c_cur[t].key
              /\ c_pc[u] = "lookup"
              /\ c_pc'[u] # "lookup")
                 => c_pc'[u] = "call"
       /\ (BothStoredSameKey
             => /\ Cardinality(EntriesFor(cache_store, c_cur[1].key)) = 1
                /\ LET e == cache_store[IndexOf(cache_store, c_cur[1].key)]
                   IN  /\ e.result = c_cur[h_storer].result
                       /\ e.timestamp = c_cur[h_storer].entry_ts)']_vars

\* both callers missed on the same key before either stored; the caller
\* that invoked the target first stored last, at a later time, and the
\* entry holds its result
C15_Witness ==
    /\ BothStoredSameKey
    /\ ttl = 2
    /\ \A t \in Threads : ~c_cur[t].expired
    /\ c_cur[h_storer].result = 1
    /\ call_count = 2
    /\ c_cur[1].entry_ts # c_cur[2].entry_ts
    /\ cache_store[IndexOf(cache_store, c_cur[1].key)].result = 1

\* C16 (failed target is not cached): with a single caller, the step in
\* which the target raises during a miss hands the caller that very
\* exception, writes nothing to the store, which holds no entry for the
\* key, and leaves the lock free; and the next call with the same key is a
\* miss that invokes the target again.
C16_FailedTargetNotCached ==
    [][/\ \A t \in Threads :
             (c_pc[t] = "call" /\ c_cur'[t].raised # 0)
                 => /\ c_pc'[t] = "idle"
                    /\ c_cur'[t].raised = call_count'
                    /\ cache_store' = cache_store
                    /\ c_cur[t].key \notin Keys(cache_store')
                    /\ c_lock' = NoThread
       /\ ((TwoCallsDone /\ h_prev.raised # 0)
             => /\ c_cur[1].invoked
                /\ c_cur[1].raised + c_cur[1].result = call_count
                /\ c_lock = NoThread)']_vars

\* the first call raised, the second call with the same arguments invoked
\* the target again and its result is now in the store, next to an entry
\* that was there before the failure
C16_Witness ==
    /\ TwoCallsDone
    /\ h_prev.raised = 2
    /\ c_cur[1].raised = 0
    /\ c_cur[1].result = 3
    /\ Len(cache_store) = 2
    /\ cache_store[2] = Entry(c_cur[1].key, 3, c_cur[1].entry_ts)

(***************************************************************************)
(* Properties of the cache key.                                            *)
(***************************************************************************)
\* two values are the same up to the insertion order of dicts, at any depth
RECURSIVE SameValue(_, _)
SameValue(a, b) ==
    /\ a.tag = b.tag
    /\ Len(a.items) = Len(b.items)
    /\ IF a.tag = "dict"
       THEN \A i \in 1..Len(a.items) : \E j \in 1..Len(b.items) :
                /\ a.items[i].items[1] = b.items[j].items[1]
                /\ SameValue(a.items[i].items[2], b.items[j].items[2])
       ELSE IF a.tag \in {"list", "tuple"}
       THEN \A i \in 1..Len(a.items) : SameValue(a.items[i], b.items[i])
       ELSE a = b
\* two calls have equal positional arguments in order and the same keyword
\* name/value pairs in any order, dicts compared up to insertion order
SameArguments(f, g) ==
    /\ Len(f.args) = Len(g.args)
    /\ \A i \in 1..Len(f.args) : SameValue(f.args[i], g.args[i])
    /\ Len(f.kwargs) = Len(g.kwargs)
    /\ \A i \in 1..Len(f.kwargs) : \E j \in 1..Len(g.kwargs) :
           /\ f.kwargs[i][1] = g.kwargs[j][1]
           /\ SameValue(f.kwargs[i][2], g.kwargs[j][2])
\* c_cur[1] is the second of two consecutive calls and h_prev the first,
\* and both have computed their key
TwoKeysMade == c_active = {1} /\ c_started >= 2

SecondWithinTtl ==
    /\ TwoKeysMade
    /\ c_pc[1] = "idle"
    /\ FirstReturned
    /\ c_cur[1].current_time - h_prev.entry_ts < ttl

\* C18 (positional and keyword forms share a cache entry): a call
\* f(a=1, b=2, c=3) that follows f(1, 2, 3) within ttl is a cache hit: it
\* does not invoke the target and returns the result of f(1, 2, 3).
C18_PositionalKeywordShareEntry ==
    (/\ SecondWithinTtl
     /\ h_prev.form = Positional123
     /\ c_cur[1].form = KeywordABC)
        => /\ ~c_cur[1].invoked
           /\ c_cur[1].result = h_prev.result

\* C19 (reordered list argument is still a hit): a call with the dict
\* {"a": 1, "b": 2} and the list ["y", "x"] that follows, within ttl, the
\* call with the dict {"b": 2, "a": 1} and the list ["x", "y"] is served
\* from the cache: it does not invoke the target and returns the result of
\* the first call.
C19_ReorderedListHit ==
    (/\ SecondWithinTtl
     /\ h_prev.form = PayloadTags
     /\ c_cur[1].form = PayloadTagsReordered)
        => /\ ~c_cur[1].invoked
           /\ c_cur[1].result = h_prev.result

(***************************************************************************)
(* Properties of the exception that an exhausted retry raises.             *)
(***************************************************************************)
\* C20 (exhausted retry surfaces the target's own exception): when a target
\* wrapped with retry(max_attempts=2), which retries on Exception, raises
\* RuntimeError at every attempt, the caller observes a RuntimeError whose
\* message is the one of the last attempt, after exactly 2 invocations.
C20_ExhaustedSurfacesTargetException ==
    \A t \in Threads :
        (/\ RetryDone(t)
         /\ max_attempts = 2
         /\ exceptions = {"Exception"}
         /\ \A i \in 1..2 : PlanAt(r_plan[t], i) = "RuntimeError")
            => /\ "RuntimeError" \in Bases(ObservedClass(r_out[t]))
               /\ ObservedMessage(r_out[t]) = TargetMessage(Exc("RuntimeError", 2))
               /\ h_invoked[t] = 2

C22_CacheKeyFailure ==
    [][\A t \in Threads :
          (c_pc[t] = "lookup" /\ c_pc'[t] # "lookup" /\ ~Hashable(c_cur[t].key))
              => /\ c_cur'[t].error = "CacheKeyError"
                 /\ c_pc'[t] = "idle"
                 /\ ~c_cur'[t].invoked
                 /\ call_count' = call_count
                 /\ cache_store' = cache_store
                 /\ c_lock' = NoThread]_vars

(***************************************************************************)
(* Properties of the async retry wrapper under cancellation.               *)
(***************************************************************************)
\* C23 (cancellation is never retried): in the async retry wrapper, an
\* invocation of the target that raises CancelledError is the last one of
\* the call, which ends with that very exception; and a call cancelled in
\* its inter-attempt wait ends with the cancellation, having invoked the
\* target once per wait begun and not again; no RetryExhausted carries a
\* cancellation.
C23_CancellationNeverRetried ==
    \A t \in Threads :
        /\ \A i \in 1..h_invoked[t] :
              PlanAt(r_plan[t], i) = "CancelledError"
                  => /\ i = h_invoked[t]
                     /\ r_pc[t] = "idle"
                     /\ r_out[t] = Raised(Exc("CancelledError", i))
        /\ r_out[t] = Raised(Cancellation)
              => /\ r_pc[t] = "idle"
                 /\ h_invoked[t] = Len(h_sleeps[t]) + 1
                 /\ h_invoked[t] < max_attempts
        /\ r_out[t].kind = "RetryExhausted"
              => r_out[t].last_exception.kind # "CancelledError"

\* retry on Exception: a failure, a wait, then the target raises
\* CancelledError at its second invocation and the call ends with it
C23_Witness ==
    /\ r_async
    /\ exceptions = {"Exception"}
    /\ max_attempts = 3
    /\ r_pc[1] = "idle"
    /\ r_plan[1][1] = "ValueError"
    /\ r_out[1] = Raised(Exc("CancelledError", 2))
    /\ h_invoked[1] = 2
    /\ Len(h_sleeps[1]) = 1

(***************************************************************************)
(* Properties of several wrapped callables.                                *)
(***************************************************************************)
\* C24 (per-callable state isolation): two applications of cache or of
\* rate_limit have different stores, windows and locks; a call of one
\* wrapped callable leaves the store and the window of every other one
\* unchanged; a cached callable called with an argument for the first time
\* misses, and a limited callable with fewer than calls admitted calls of
\* its own admits, whatever calls the other callables have served.
C24_PerCallableIsolation ==
    [][/\ \A a, b \in Instances :
            a # b => /\ k_cache[a].store # k_cache[b].store
                     /\ k_cache[a].lock # k_cache[b].lock
                     /\ k_rate[a].times # k_rate[b].times
                     /\ k_rate[a].lock # k_rate[b].lock
       /\ \A a \in Instances :
            (k_calls' = k_calls + 1 /\ k_last'.instance = a)
                => /\ \A b \in Instances \ {a} :
                         /\ StoreOf(b)' = StoreOf(b)
                         /\ WindowOf(b)' = WindowOf(b)
                   /\ (k_last'.wrapper = "cache" /\ k_last'.x \notin h_keys[a])
                         => ~k_last'.served
                   /\ (k_last'.wrapper = "rate_limit" /\ h_admits[a] < calls)
                         => k_last'.served]_vars

\* the test: function_one(5), function_two(5), and both again: each target
\* has been invoked once and each store holds its own result for the key
C24_Witness ==
    /\ k_calls = 4
    /\ h_misses = [i \in Instances |-> 1]
    /\ h_keys = [i \in Instances |-> {2}]
    /\ h_admits = [i \in Instances |-> 0]
    /\ k_last = [wrapper |-> "cache", instance |-> 2, x |-> 2, served |-> TRUE]
    /\ Len(StoreOf(1)) = 1
    /\ Len(StoreOf(2)) = 1
    /\ StoreOf(1)[1].result = 4
    /\ StoreOf(2)[1].result = 6

\* C25 (retry invocations are independent): in every call, finished or
\* not, the attempt counter is the number of invocations of the target made
\* by this call and the current delay is the configured delay times backoff
\* for each wait of this call, so a call starts with no attempt made and the
\* configured delay whatever other calls did; a step of one call leaves the
\* counter and the delay of every other caller unchanged.
C25_RetryCallsIndependent ==
    [][/\ \A t \in Threads :
            (r_pc[t]' # "idle" \/ r_out[t]'.kind # "none")
                => /\ r_loc[Frame(t)]'.attempts = h_invoked[t]'
                   /\ r_loc[Frame(t)]'.current_delay =
                          delay * Pow(backoff, Len(h_sleeps[t]'))
       /\ \A t, u \in Threads :
            (t # u /\ r_pc[t]' # r_pc[t])
                => /\ r_loc[Frame(u)]'.attempts = r_loc[Frame(u)].attempts
                   /\ r_loc[Frame(u)]'.current_delay = r_loc[Frame(u)].current_delay]_vars

\* one caller has failed once and waited, its delay has grown, and the other
\* caller has just entered
C25_Witness ==
    /\ r_active = Threads
    /\ r_pc[1] = "loop"
    /\ r_loc[Frame(1)].attempts = 1
    /\ r_loc[Frame(1)].current_delay = delay * backoff
    /\ r_pc[2] = "loop"
    /\ r_loc[Frame(2)].attempts = 0
    /\ r_loc[Frame(2)].current_delay = delay
    /\ r_started = 2

(***************************************************************************)
(* Properties of rate_limit stacked outside retry.                         *)
(***************************************************************************)
\* C26 (stacking precedence): with rate_limit outside retry, a call that
\* has not been admitted yet has not entered the retry wrapper: none of its
\* steps invokes the target, waits or changes the retry outcome; the step
\* that rejects a call ends it with RateLimitExceeded, not RetryExhausted;
\* the retry wrapper is entered only by a call whose timestamp has been
\* recorded, and a call ends with RetryExhausted only when it returns from
\* the retry wrapper with max_attempts invocations of the target made.
C26_RejectionPrecedesRetry ==
    [][\A t \in Threads :
         /\ rl_pc[t] \in {"lock", "check", "record"}
               => /\ r_pc[t] = "idle" /\ r_pc[t]' = "idle"
                  /\ h_invoked[t]' = h_invoked[t]
                  /\ h_sleeps[t]' = h_sleeps[t]
                  /\ r_out[t]' = r_out[t]
         /\ (rl_pc[t] = "check" /\ rl_pc[t]' = "idle")
               => /\ LimitReached(Prune(call_times, now))
                  /\ rl_out[t]'.kind = "RateLimitExceeded"
         /\ (rl_pc[t] # "idle" /\ rl_pc[t]' = "idle"
                /\ rl_out[t]'.kind = "RateLimitExceeded")
               => rl_pc[t] = "check"
         /\ (rl_pc[t] # "inner" /\ rl_pc[t]' = "inner") => rl_pc[t] = "call"
         /\ (rl_pc[t] # "call" /\ rl_pc[t]' = "call")
               => /\ rl_pc[t] = "record"
                  /\ Len(call_times) < calls
                  /\ call_times' = Append(call_times, rl_cur[t])
         /\ (rl_pc[t] # "idle" /\ rl_pc[t]' = "idle"
                /\ rl_out[t]'.kind = "RetryExhausted")
               => /\ rl_pc[t] = "inner"
                  /\ h_invoked[t] = max_attempts
                  /\ Len(h_sleeps[t]) = IF max_attempts = 0 THEN 0
                                        ELSE max_attempts - 1]_vars

\* one call was admitted and exhausted its attempts, and the next call of
\* the other thread has been rejected without entering the retry wrapper
C26_Witness ==
    /\ max_attempts = 2
    /\ rl_pc[1] = "idle"
    /\ rl_out[1].kind = "RetryExhausted"
    /\ h_invoked[1] = 2
    /\ rl_pc[2] = "idle"
    /\ rl_out[2].kind = "RateLimitExceeded"
    /\ h_invoked[2] = 0
    /\ r_out[2] = NoOutcome
    /\ r_started = 1

C28_WindowSizeBounded ==
    [][calls >= 1 =>
         /\ (rl_lock' = NoThread => Len(call_times') <= calls)
         /\ \A t \in Threads :
              /\ (rl_pc[t] = "check" /\ rl_pc[t]' = "record")
                    => /\ Len(Prune(call_times, now)) < calls
                       /\ call_times' = Prune(call_times, now)
              /\ (rl_pc[t] = "record" /\ rl_pc[t]' = "call")
                    => /\ Len(call_times) < calls
                       /\ Len(call_times') = Len(call_times) + 1]_vars

\* the list is full with the lock free, and the latest check rejected a call
C28_Witness ==
    /\ calls = 2
    /\ rl_lock = NoThread
    /\ Len(call_times) = calls
    /\ Len(h_log) = 3
    /\ h_log[2].admitted
    /\ ~h_log[3].admitted

(***************************************************************************)
(* Properties of the timestamps of the cache entries.                      *)
(***************************************************************************)
\* the call that has just returned was a hit
WasHit(call) == ~call.invoked /\ call.raised = 0 /\ call.error = ""

\* C29 (a hit does not extend an entry's life): a lookup that hits moves the
\* entry to the most-recently-used end with its result and timestamp
\* unchanged; no step changes the timestamp of an entry that stays in the
\* store; a lookup is served only from an entry with current_time -
\* timestamp < ttl; and with a single caller, a call that follows a hit on
\* an entry recorded at s and reads the clock at s + ttl or later misses
\* and finds the entry expired.
C29_HitKeepsTimestamp ==
    [][/\ \A t \in Threads :
            (c_pc[t] = "lookup" /\ c_pc[t]' = "idle" /\ c_cur[t]'.error = "")
                => LET e == cache_store[IndexOf(cache_store, c_cur[t].key)]
                   IN  /\ c_cur[t].key \in Keys(cache_store)
                       /\ c_cur[t].current_time - e.timestamp < ttl
                       /\ Len(cache_store') = Len(cache_store)
                       /\ cache_store'[Len(cache_store')] = e
       /\ \A i \in 1..Len(cache_store) : \A j \in 1..Len(cache_store') :
            (cache_store[i].key = cache_store'[j].key
                /\ cache_store[i].result = cache_store'[j].result)
                => cache_store'[j].timestamp = cache_store[i].timestamp
       /\ (TwoCallsDone /\ WasHit(h_prev)
              /\ c_cur[1].current_time - h_prev.entry_ts >= ttl)'
            => (c_cur[1].invoked /\ c_cur[1].expired)']_vars

\* an entry recorded at 0 with ttl = 2 was hit at 1 and is found expired at 2
C29_Witness ==
    /\ TwoCallsDone
    /\ WasHit(h_prev)
    /\ h_prev.entry_ts = 0
    /\ h_prev.current_time = 1
    /\ ttl = 2
    /\ c_cur[1].current_time = 2
    /\ c_cur[1].expired
    /\ c_cur[1].invoked

\* C30 (entry timestamp is the store time): the entry that a call stores
\* carries the clock value at the time of the store, after the target has
\* returned, which is not earlier than the reading made at the entry of the
\* call; with a single caller, the next call with the same arguments hits
\* whenever it reads the clock less than ttl after that store, however long
\* before the store the first call began.
C30_TimestampIsStoreTime ==
    [][/\ \A t \in Threads :
            (c_pc[t] = "store" /\ c_pc[t]' = "evict")
                => LET e == cache_store'[Len(cache_store')]
                   IN  /\ e.key = c_cur[t].key
                       /\ e.result = c_cur[t].result
                       /\ e.timestamp = now
                       /\ e.timestamp >= c_cur[t].current_time
                       /\ c_cur[t]'.entry_ts = now
       /\ (TwoCallsDone /\ FirstReturned /\ h_prev.invoked
              /\ c_cur[1].current_time - h_prev.entry_ts < ttl)'
            => WasHit(c_cur[1])']_vars

\* ttl = 1: the first call began at 0 and stored at 1; the second call at 1,
\* a full ttl after the first began, is a hit
C30_Witness ==
    /\ TwoCallsDone
    /\ FirstReturned
    /\ h_prev.invoked
    /\ h_prev.current_time = 0
    /\ h_prev.entry_ts = 1
    /\ ttl = 1
    /\ c_cur[1].current_time = 1
    /\ c_cur[1].current_time - h_prev.current_time >= ttl
    /\ WasHit(c_cur[1])
    /\ c_cur[1].result = h_prev.result

(***************************************************************************)
(* Termination of the retry wrapper.                                       *)
(***************************************************************************)
\* how a finished call of the retry wrapper ended
EndedOnce(out) ==
    \/ out.kind = "return" /\ out.exc = NoExc /\ out.last_exception = NoExc
    \/ out.kind = "raise" /\ ~Catches(out.exc) /\ out.last_exception = NoExc
    \/ out.kind = "RetryExhausted" /\ out.exc = NoExc /\ out.value = 0

C32_NoLockLeakNoDeadlock ==
    /\ \A t \in Threads :
         c_pc[t] \in {"lookup", "store"} ~> c_pc[t] \in {"call", "evict", "idle"}
    /\ \A t \in Threads : c_pc[t] # "idle" ~> (c_pc[t] = "idle" /\ c_lock # t)
    /\ \A t \in Threads : rl_pc[t] = "lock" ~> rl_lock = t
    /\ \A t \in Threads : rl_pc[t] # "idle" ~> (rl_pc[t] = "idle" /\ rl_lock # t)
    /\ []((\A t \in Threads : c_pc[t] = "idle") => c_lock = NoThread)
    /\ []((\A t \in Threads : rl_pc[t] = "idle") => rl_lock = NoThread)

\* the target of the single caller has called the wrapper again, and the
\* inner call has missed too and is running the target with the lock free
C32_Witness ==
    /\ c_active = {1}
    /\ c_pc[1] = "call"
    /\ c_pc[2] = "call"
    /\ c_lock = NoThread
    /\ c_started = 2

(***************************************************************************)
(* Properties of the clock readings of the cache wrapper.                  *)
(***************************************************************************)
\* C33 (freshness is judged at lookup time): whenever a lookup returns a
\* stored result, the age of the entry at the moment of the lookup, the
\* clock value then minus the timestamp of the entry, is less than ttl.
C33_FreshAtLookupTime ==
    [][\A t \in Threads :
         (c_pc[t] = "lookup" /\ c_pc[t]' = "idle" /\ c_cur[t]'.error = "")
            => now - cache_store[IndexOf(cache_store, c_cur[t].key)].timestamp < ttl]_vars

(***************************************************************************)
(* Properties of the cache key for arguments of different types.           *)
(***************************************************************************)
\* C34 (hits are only served for equal arguments): with a single caller,
\* two consecutive calls whose arguments are not equal are given different
\* keys, and a call that is served the result stored by the call before it
\* has arguments equal to those of that call.
C34_HitsOnlyForEqualArguments ==
    /\ (TwoKeysMade /\ ~SameArguments(h_prev.form, c_cur[1].form))
          => c_cur[1].key # h_prev.key
    /\ (TwoKeysMade /\ c_pc[1] = "idle" /\ WasHit(c_cur[1]) /\ h_prev.invoked
           /\ c_cur[1].result = h_prev.result)
          => SameArguments(h_prev.form, c_cur[1].form)

(***************************************************************************)
(* Properties of the rate-limit wrapper when the target fails.             *)
(***************************************************************************)
\* the calls admitted so far whose timestamp is younger than period at T
AdmittedYoungerThanPeriod(log, T) == {i \in Admitted(log) : T - log[i].time < period}

\* C35 (an admitted call consumes its slot whatever the target does): the
\* timestamp of a call is in the list when the target starts; the step in
\* which the target returns or raises leaves the list unchanged; and every
\* check rejects exactly when calls or more of the calls admitted before,
\* whatever their targets did, have a timestamp younger than period.
C35_AdmittedCallConsumesSlot ==
    [][\A t \in Threads :
         /\ (rl_pc[t] = "record" /\ rl_pc[t]' = "call")
               => call_times'[Len(call_times')] = rl_cur[t]
         /\ (rl_pc[t] = "call" /\ rl_pc[t]' = "idle")
               => /\ rl_out[t]'.kind \in {"return", "raise"}
                  /\ call_times' = call_times
         /\ (rl_pc[t] = "check" /\ rl_pc[t]' # "check")
               => (rl_pc[t]' = "idle"
                     <=> Cardinality(AdmittedYoungerThanPeriod(h_log, now)) >= calls)]_vars

\* calls = 1: the target of the admitted call raised, and the other call,
\* checked within the period, was rejected
C35_Witness ==
    /\ calls = 1
    /\ Len(h_log) = 2
    /\ h_log[1].admitted
    /\ ~h_log[2].admitted
    /\ h_log[2].time - h_log[1].time < period
    /\ \E t, u \in Threads :
         /\ rl_pc[t] = "idle"
         /\ rl_out[t].kind = "raise"
         /\ rl_pc[u] = "idle"
         /\ rl_out[u].kind = "RateLimitExceeded"

(***************************************************************************)
(* Properties of the failure that RetryExhausted carries.                  *)
(***************************************************************************)
\* C36 (RetryExhausted always wraps a real target failure): with
\* max_attempts >= 1 no call leaves the loop by its condition (the raise
\* after the loop is not reached), and every RetryExhausted carries, as
\* last_exception and as cause, the failure raised by the last invocation of
\* the target, the max_attempts-th, which is not the placeholder; with
\* max_attempts <= 0 RetryExhausted is raised with the placeholder and with
\* no invocation of the target.
C36_ExhaustedWrapsRealFailure ==
    [][\A t \in Threads :
         /\ (r_pc[t] = "loop" /\ r_pc[t]' = "idle" /\ h_invoked[t]' = h_invoked[t])
               => max_attempts <= 0
         /\ (r_out[t].kind = "RetryExhausted" /\ max_attempts >= 1)'
               => (/\ h_invoked[t] = max_attempts
                   /\ PlanAt(r_plan[t], h_invoked[t]) # "ok"
                   /\ r_out[t].last_exception =
                          Exc(PlanAt(r_plan[t], h_invoked[t]), h_invoked[t])
                   /\ r_out[t].last_exception # Placeholder
                   /\ r_out[t].cause = r_out[t].last_exception)'
         /\ (r_out[t].kind = "RetryExhausted" /\ max_attempts <= 0)'
               => (/\ h_invoked[t] = 0
                   /\ r_out[t].last_exception = Placeholder
                   /\ r_out[t].cause = NoExc)']_vars

\* the target raised RuntimeError at each of its three invocations: the
\* failure carried is the third, a RuntimeError like the placeholder but
\* raised by the target
C36_Witness ==
    /\ max_attempts = 3
    /\ r_pc[1] = "idle"
    /\ r_out[1].kind = "RetryExhausted"
    /\ r_out[1].last_exception = Exc("RuntimeError", 3)
    /\ r_out[1].last_exception.kind = Placeholder.kind
    /\ r_out[1].last_exception # Placeholder
    /\ h_invoked[1] = 3

(***************************************************************************)
(* Properties of the removal of cache entries.                             *)
(***************************************************************************)
\* the keys that a step removes from the store
Removed == Keys(cache_store) \ Keys(cache_store')
\* the entries of store that are ttl old or older at time T
ExpiredAt(store, T) == {i \in 1..Len(store) : T - store[i].timestamp >= ttl}

\* C37 (expiry is lazy and per key): a lookup removes at most the entry of
\* its own key, and only when that entry is expired for the clock value the
\* call read; a store removes nothing; an eviction removes the entries at
\* the least-recently-used end by which the store exceeds maxsize, whether
\* they are expired or not, and leaves every other entry, expired ones
\* included, in place; no other step removes an entry.
C37_ExpiryLazyPerKey ==
    [][/\ \A t \in Threads :
            /\ (c_pc[t] = "lookup" /\ c_pc[t]' # "lookup")
                  => /\ Removed \subseteq {c_cur[t].key}
                     /\ Removed # {}
                           => c_cur[t].current_time
                                - cache_store[IndexOf(cache_store, c_cur[t].key)].timestamp
                                   >= ttl
            /\ (c_pc[t] = "store" /\ c_pc[t]' # "store")
                  => /\ Removed = {}
                     /\ Len(cache_store') >= Len(cache_store)
            /\ (c_pc[t] = "evict" /\ c_pc[t]' # "evict")
                  => LET excess == IF maxsize # None /\ Len(cache_store) > maxsize
                                   THEN Len(cache_store) - maxsize ELSE 0
                     IN  cache_store' = SubSeq(cache_store, excess + 1, Len(cache_store))
       /\ (\A t \in Threads : c_pc[t]' = c_pc[t]) => Removed = {}
       /\ (\A t \in Threads : c_pc[t] \notin {"lookup", "evict"}) => Removed = {}]_vars

\* maxsize = 2, ttl = 2: B stored at 0, A stored at 1, B hit at 1; the store
\* of a third key at 2 has evicted A, which was still live, and has kept B,
\* which is expired
C37_Witness ==
    /\ c_active = {1}
    /\ maxsize = 2
    /\ c_pc[1] = "idle"
    /\ Len(h_evicted) = 1
    /\ now - h_evicted[1].timestamp < ttl
    /\ Len(cache_store) = maxsize
    /\ ExpiredAt(cache_store, now) = {1}

\* the checks i+1..j-1 of the log were all rejected
NoneAdmittedBetween(i, j) == \A k \in (i + 1)..(j - 1) : ~h_log[k].admitted

\* C38: wait_time is exact: when a call is rejected at time t with wait_time
\* w and no call is admitted in between, a call made at time t + w is
\* admitted and a call made strictly between t and t + w is rejected.
C38_WaitTimeExact ==
    \A i \in 1..Len(h_log) : \A j \in (i + 1)..Len(h_log) :
        (~h_log[i].admitted /\ NoneAdmittedBetween(i, j))
            => LET t == h_log[i].time
                   w == h_log[i].exc.wait_time
                   u == h_log[j].time
               IN  /\ u = FAdd(t, w) => h_log[j].admitted
                   /\ (t < u /\ u < FAdd(t, w)) => ~h_log[j].admitted

====
